---- MODULE Spec2Model ----
(***************************************************************************)
(* Yuki workflow kernel: DAG assembly (VWorkflow.construct_workflow_jobs), *)
(* the orchestrator (VWorkflow.run, VWorkflow._wait_for_dependencies), the *)
(* two backends' submit (ReanaWorkflow / DryWorkflow._execute_backend) and *)
(* the job status-sync (VJob.update_status_from_workflow).                 *)
(*                                                                         *)
(* A job is identified by its storage path; paths are the integers 1..n.   *)
(***************************************************************************)
EXTENDS Integers, Sequences, FiniteSets, TLC

\* ------------------------------------------------------------------ bounds
\* Number of stored jobs the assembler is run over.
NumJobs == 3
\* Longest list of root jobs handed to a workflow.
MaxRoots == 2

\* ------------------------------------------------------------- vocabulary
\* Python's None (an unset machine id).
None == "None"
\* The one execution site machine id used in the model.
Machines == {"m1"}
\* object_type values of config.json.
Kinds == {"task", "algorithm"}
\* status.json values the assembler is run over.
AsmStatuses == {"raw", "finished", "failed", "pending", "running", "archived"}
\* Variant: finished is missing from the tuple.
TerminalWithoutFinished == {"failed", "pending", "running", "archived"}

\* The tuple tested at VWorkflow.py line 415.
TerminalForAssembly == {"finished", "failed", "pending", "running", "archived"}

VARIABLES
    deps,           \* config.json "dependencies" of every job (ordered list)
    status,         \* status.json "status" of every job
    kind,           \* config.json "object_type" of every job
    environment,    \* celebi.yaml "environment" of every job
    storedMachine,  \* status.json "machine_id" of every job (None if absent)
    rootMachine,    \* machine id the root VJob objects are built with
    roots,          \* paths of the root jobs, in the caller's order
    asm,            \* construct_workflow_jobs: [stack, visited, jobs]
    pc,             \* position of the workflow run
    mode,           \* backend class of the running workflow: "reana" or "dry"
    wfid,           \* run config "workflow" of every job ("" if never set)
    wfStatus,       \* results.json "status" of the running workflow
    iTries,         \* attempts of _wait_for_dependencies performed so far
    slept,          \* time units spent in time.sleep by the wait loop
    attempt,        \* last attempt: [polled, synced, all_finished]
    writes,         \* <<path, status>> pairs run() has written with set_status
    emitted,        \* construct_snake_file has written the Snakefile
    backendLog,     \* backend stages invoked by _execute_backend, in order
    raised,         \* run() has propagated an exception to its caller
    op,             \* last status operation on a job record: [name, job, before, full, step]
    backendTypes,   \* config.json "backend_types": machine id -> "dry" / "reana" (None: no entry)
    recordedMachine, \* Workflows/<project>/<uuid>/config.json "machine_id" of every stored workflow
    created,        \* backend class VWorkflow.create last returned for every stored workflow
    manifest,       \* LocalWorkflows/<uuid>/workflow_info.json: [present, jobs]
    markers,        \* job ids whose <id>.done file exists in the local execution directory
    localResults,   \* results.json "results" of the local workflow: [written, status, total, completed]
    plan,           \* files upload_file sends, in call order
    broken,         \* engine calls and file transfers that raise when made
    sent,           \* files the last submit uploaded, in order
    remote,         \* files the engine lists for the impression, per class
    fetched,        \* files written under the impression's storage, per class
    marker,         \* <class>.downloaded exists, per class
    remoteCalls,    \* calls the last download operation made on the engine
    engine,         \* what the engine can do with a status request of the wait loop
    depResults,     \* results.json / log.json of the workflow owning the inputs: [status, step]
    polls,          \* update_workflow_status calls of the last wait attempt: [uuid, result]
    clock,          \* time.time(), in ticks
    consultTable,   \* CHERN_CACHE.consult_table: workflow UUID -> [status, last]
    records,        \* results.json "status" of every stored workflow ("absent": no file)
    lastCall,       \* last call of status(): [uuid, value, hit, at]
    stepJob,        \* the job a rule is generated for: [kind, is_input, aliases, image, values, template]
    stepCommand,    \* VContainer.snakemake_rule of the job: [made, use_eos, command, commands, shell]
    stepRule,       \* the job's rule in the Snakefile: [made, inputs, output]
    racePc,         \* position of each of two concurrent runs in run()
    raceInput,      \* is_input of the shared job in each run's job list
    raceTries,      \* iTries of each run's wait loop
    raceStatus,     \* status.json "status" of the shared job
    raceWorkflow,   \* run config "workflow" of the shared job
    now,            \* time.time() at the status route, in time units
    updateTable,    \* CHERN_CACHE.update_table entry of the workflow (-1: none)
    refreshes,      \* times at which task_update_workflow_status was enqueued
    lastQuery       \* last status query: [at, status, since, enqueued]

storeVars == <<deps, kind, environment, rootMachine, roots>>

runVars == <<mode, wfid, wfStatus, iTries, slept, attempt, writes, emitted, backendLog, raised>>

createVars == <<backendTypes, recordedMachine, created>>

localVars == <<manifest, markers, localResults>>

transferVars == <<plan, broken, sent, remote, fetched, marker, remoteCalls>>

pollVars == <<engine, depResults, polls>>

cacheVars == <<clock, consultTable, records, lastCall>>

scriptVars == <<stepJob, stepCommand, stepRule>>

raceVars == <<racePc, raceInput, raceTries, raceStatus, raceWorkflow>>

throttleVars == <<now, updateTable, refreshes, lastQuery>>

serviceVars == <<createVars, localVars, transferVars, pollVars, cacheVars, scriptVars, raceVars, throttleVars>>

\* The service variables a step of one service leaves alone.
notCreateVars == <<localVars, transferVars, pollVars, cacheVars, scriptVars, raceVars, throttleVars>>

notLocalVars == <<createVars, transferVars, pollVars, cacheVars, scriptVars, raceVars, throttleVars>>

notTransferVars == <<createVars, localVars, pollVars, cacheVars, scriptVars, raceVars, throttleVars>>

notPollVars == <<createVars, localVars, transferVars, cacheVars, scriptVars, raceVars, throttleVars>>

notCacheVars == <<createVars, localVars, transferVars, pollVars, scriptVars, raceVars, throttleVars>>

notScriptVars == <<createVars, localVars, transferVars, pollVars, cacheVars, raceVars, throttleVars>>

notRaceVars == <<createVars, localVars, transferVars, pollVars, cacheVars, scriptVars, throttleVars>>

notThrottleVars == <<createVars, localVars, transferVars, pollVars, cacheVars, scriptVars, raceVars>>

vars == <<storeVars, storedMachine, status, asm, pc, runVars, op, serviceVars>>

\* ------------------------------------------------------------ job objects
\* Sequences without repetition over S.
InjSeqs(S) ==
    {s \in UNION {[1..k -> S] : k \in 0..Cardinality(S)} :
        \A i, j \in DOMAIN s : i # j => s[i] # s[j]}

\* Acyclic dependency lists over 1..n, up to renaming of the jobs: job j
\* depends, in any order, on jobs below j.
RECURSIVE DepGraphs(_)
DepGraphs(n) ==
    IF n = 0 THEN {<<>>}
    ELSE {Append(d, s) : d \in DepGraphs(n - 1), s \in InjSeqs(1..(n - 1))}

\* Sequences over S of length at most k.
SeqsUpTo(S, k) == UNION {[1..i -> S] : i \in 0..k}

\* VJob(path, machine_id): the machine id falls back to status.json; a job
\* whose environment is "rawdata" is born an input job.
VJobNew(path, machine_id) ==
    [path |-> path,
     machine_id |-> IF machine_id = None THEN storedMachine[path] ELSE machine_id,
     is_input |-> environment[path] = "rawdata"]

\* VWorkflow.__init__: the workflow's machine id is the first root's.
WorkflowMachine ==
    IF roots # <<>> THEN VJobNew(roots[1], rootMachine).machine_id ELSE ""

\* -------------------------------------------------- construct_workflow_jobs
\* stack = [(job, False) for job in root_jobs]
InitialStack ==
    [i \in 1..Len(roots) |-> [job |-> VJobNew(roots[i], rootMachine), expanded |-> FALSE]]

AsmStart == [stack |-> InitialStack, visited |-> {}, jobs |-> <<>>]

\* Variant: the dedup test is lost.
AlreadyProcessedNever(s, entry) == FALSE

\* "if job.path in visited and not expanded: continue"
AlreadyProcessed(s, entry) == entry.job.path \in s.visited /\ ~entry.expanded

\* "if job.machine_id is None: job = VJob(job.path, self.machine_id)"
ResolveMachine(job) ==
    IF job.machine_id = None THEN VJobNew(job.path, WorkflowMachine) ELSE job

\* The entries pushed for the dependencies not yet visited, in list order.
DepEntries(s, job) ==
    LET d == deps[job.path]
        keep == SelectSeq(d, LAMBDA p : p \notin s.visited)
    IN [i \in 1..Len(keep) |-> [job |-> VJobNew(keep[i], None), expanded |-> FALSE]]

\* Variant: the job is re-pushed above its dependencies instead of below.
ExpandStackJobOnTop(rest, s, job) ==
    rest \o DepEntries(s, job) \o <<[job |-> job, expanded |-> TRUE]>>

\* Variant: the job is re-pushed without the expanded mark.
ExpandStackUnmarked(rest, s, job) ==
    rest \o <<[job |-> job, expanded |-> FALSE]>> \o DepEntries(s, job)

\* "stack.append((job, True))" then one append per dependency.
ExpandStack(rest, s, job) ==
    rest \o <<[job |-> job, expanded |-> TRUE]>> \o DepEntries(s, job)

\* A terminal job is finalized at once; a task among them becomes an input.
FinalizeTerminal(s, rest, job) ==
    [stack |-> rest,
     visited |-> s.visited \cup {job.path},
     jobs |-> Append(s.jobs,
                     IF kind[job.path] = "task" THEN [job EXCEPT !.is_input = TRUE] ELSE job)]

\* Second pop of an expanded job.
FinalizeExpanded(s, rest, job) ==
    [stack |-> rest, visited |-> s.visited \cup {job.path}, jobs |-> Append(s.jobs, job)]

\* One iteration of "while stack:".
AsmStep(s) ==
    LET entry == s.stack[Len(s.stack)]
        rest == SubSeq(s.stack, 1, Len(s.stack) - 1)
        job == ResolveMachine(entry.job)
    IN  IF AlreadyProcessed(s, entry) THEN [s EXCEPT !.stack = rest]
        ELSE IF job.machine_id = None THEN [s EXCEPT !.stack = rest]
        ELSE IF status[job.path] \in TerminalForAssembly THEN FinalizeTerminal(s, rest, job)
        ELSE IF entry.expanded THEN FinalizeExpanded(s, rest, job)
        ELSE [s EXCEPT !.stack = ExpandStack(rest, s, job)]

\* The whole of construct_workflow_jobs: the loop run until the stack is empty.
RECURSIVE AsmRun(_)
AsmRun(s) == IF s.stack = <<>> THEN s ELSE AsmRun(AsmStep(s))

\* No status operation has been made yet.
NoOp == [name |-> "none", job |-> 0, before |-> "", full |-> "", step |-> ""]

\* Machine ids of the execution sites registered as runners.
SiteMachines == {"m1", "m2"}
\* UUIDs of the stored workflows VWorkflow.create is called for.
StoredWorkflows == {"wA", "wB"}

\* No runner is registered and create has not been called.
CreateIdle ==
    /\ backendTypes = [m \in SiteMachines |-> None]
    /\ recordedMachine = [w \in StoredWorkflows |-> "m1"]
    /\ created = [w \in StoredWorkflows |-> "none"]

\* results.json before anything wrote "results" to it.
NoResults == [written |-> FALSE, status |-> "unknown", total |-> 0, completed |-> 0]

\* No local workflow has been prepared.
LocalIdle ==
    /\ manifest = [present |-> FALSE, jobs |-> <<>>]
    /\ markers = {}
    /\ localResults = NoResults

\* Artifact classes of an impression on the engine.
Classes == {"stageout", "logs"}

\* Nothing is to be uploaded and nothing was downloaded.
TransferIdle ==
    /\ plan = <<>>
    /\ broken = {}
    /\ sent = <<>>
    /\ remote = [c \in Classes |-> <<>>]
    /\ fetched = [c \in Classes |-> {}]
    /\ marker = [c \in Classes |-> FALSE]
    /\ remoteCalls = <<>>

\* No step of log.json matches the job.
NoStep == "NoStep"

\* client.get_workflow_status raises: the engine cannot be reached.
CallRaises == [status |-> "", step |-> "unreachable"]

\* The engine that owns the input jobs' workflow is out of reach and no
\* poll has stored a record of that workflow.
PollIdle ==
    /\ engine = {CallRaises}
    /\ depResults = [status |-> "unknown", step |-> NoStep]
    /\ polls = <<>>

\* Ticks of the clock in one time unit.
TicksPerUnit == 2

\* The default of "consult_table.get(self.uuid, ('unknown', -1))".
NeverConsulted == [status |-> "unknown", last |-> -TicksPerUnit]

\* Nobody has asked for a workflow status and no workflow has a record.
CacheIdle ==
    /\ clock = 0
    /\ consultTable = [w \in StoredWorkflows |-> NeverConsulted]
    /\ records = [w \in StoredWorkflows |-> "absent"]
    /\ lastCall = [uuid |-> "none", value |-> "", hit |-> FALSE, at |-> 0]

\* snakemake_rule has not been called.
NotCompiled ==
    [made |-> FALSE, use_eos |-> FALSE, command |-> <<>>, commands |-> <<>>, shell |-> <<>>]

\* No rule has been generated.
ScriptIdle ==
    /\ stepJob = [kind |-> "task", is_input |-> TRUE, aliases |-> <<>>, image |-> <<>>,
              values |-> <<>>, template |-> <<>>]
    /\ stepCommand = NotCompiled
    /\ stepRule = [made |-> FALSE, inputs |-> <<>>, output |-> <<>>]

\* No concurrent runs are under way.
RaceIdle ==
    /\ racePc = <<>>
    /\ raceInput = <<>>
    /\ raceTries = <<>>
    /\ raceStatus = "raw"
    /\ raceWorkflow = ""

\* The status route has not been queried.
ThrottleIdle ==
    /\ now = 0
    /\ updateTable = -1
    /\ refreshes = <<>>
    /\ lastQuery = [at |-> -1, status |-> "", since |-> 0, enqueued |-> FALSE]

\* Every service but g is in its idle state.
IdleExcept(g) ==
    /\ g = "create" \/ CreateIdle
    /\ g = "local" \/ LocalIdle
    /\ g = "transfer" \/ TransferIdle
    /\ g = "poll" \/ PollIdle
    /\ g = "cache" \/ CacheIdle
    /\ g = "script" \/ ScriptIdle
    /\ g = "race" \/ RaceIdle
    /\ g = "throttle" \/ ThrottleIdle

\* The state of the services around a run when they are not under study.
ServicesIdle == IdleExcept("none")

\* The orchestrator's variables before run() has done anything.
RunIdle ==
    /\ mode = "reana"
    /\ wfid = [j \in DOMAIN status |-> ""]
    /\ wfStatus = "unknown"
    /\ iTries = 0
    /\ slept = 0
    /\ attempt = [polled |-> <<>>, synced |-> {}, all_finished |-> TRUE]
    /\ writes = {}
    /\ emitted = FALSE
    /\ backendLog = <<>>
    /\ raised = FALSE

\* ------------------------------------------------------------- assembly run
InitAsm ==
    /\ deps \in DepGraphs(NumJobs)
    /\ status \in [1..NumJobs -> AsmStatuses]
    /\ kind \in [1..NumJobs -> {"task"}]
    /\ environment \in [1..NumJobs -> {"img"}]
    /\ rootMachine \in Machines \cup {None}
    /\ storedMachine \in IF rootMachine = None
                          THEN [1..NumJobs -> Machines \cup {None}]
                          ELSE {[j \in 1..NumJobs |-> None]}
    /\ roots \in SeqsUpTo(1..NumJobs, MaxRoots)
    /\ asm = AsmStart
    /\ pc = "construct"
    /\ RunIdle
    /\ op = NoOp
    /\ ServicesIdle

\* One pass of the loop body of construct_workflow_jobs.
ConstructStep ==
    /\ pc = "construct"
    /\ asm.stack # <<>>
    /\ asm' = AsmStep(asm)
    /\ UNCHANGED <<storeVars, op, serviceVars, storedMachine, status, pc, runVars>>

NextAsm == ConstructStep

SpecAsm == InitAsm /\ [][NextAsm]_vars

\* The loop is sequential code: an enabled iteration is eventually taken.
FairSpecAsm == SpecAsm /\ WF_vars(ConstructStep)

\* ---------------------------------------------------------------- run()
\* Bound of "for iTries in range(60)".
MaxTries == 60
\* Argument of time.sleep in the wait loop.
SleepDelay == 10
\* Number of stored jobs a workflow run is checked over.
RunJobs == 2
\* UUID of the running workflow, and of the earlier workflow that owns the
\* jobs submitted before this run.
ThisWorkflow == "w1"
PriorWorkflow == "w0"
\* status.json values a run starts from.
RunStatuses == {"raw", "running", "finished", "archived"}
\* Values of results.json "status" and of a log step "status" that another
\* process' status-sync can find in the owning workflow's records.
ObservedWorkflow == {"running", "finished", "failed"}
ObservedStep == {"running", "finished", "failed"}
\* Stages of the two backends' submit, in call order.
BackendStages ==
    IF mode = "dry" THEN <<"create_local_structure", "copy_files_local">>
    ELSE <<"create_workflow", "upload_file", "start_workflow">>

\* Variant: the length guard is lost.
ShortTokenAlways(step_status) == TRUE

\* "len(step_status) < 20"
ShortToken(step_status) == Len(step_status) < 20

\* Variant: the last rule is applied whatever the current status is.
UpdateJobStatusFlat(current_status, step_status, full_workflow_status) ==
    IF ShortToken(step_status) THEN step_status ELSE "unknown"

\* Variant: a raw job is stored as waiting.
UpdateJobStatusRawToWaiting(current_status, step_status, full_workflow_status) ==
    IF current_status = "raw" THEN "waiting"
    ELSE IF current_status = "running" THEN
        IF step_status = "success" THEN "success"
        ELSE IF step_status = "finished" THEN "finished"
        ELSE IF step_status \in {"failed", "stopped"} THEN "failed"
        ELSE IF full_workflow_status = "failed" THEN "failed"
        ELSE current_status
    ELSE IF current_status \in {"stopped", "deleted"} THEN "failed"
    ELSE IF current_status \in {"finished", "success", "failed"} THEN current_status
    ELSE IF ShortToken(step_status) THEN step_status ELSE "unknown"

\* VJob._update_job_status: the status stored after the call.
UpdateJobStatus(current_status, step_status, full_workflow_status) ==
    IF current_status = "raw" THEN
        IF ShortToken(step_status) THEN step_status ELSE current_status
    ELSE IF current_status = "running" THEN
        IF step_status = "success" THEN "success"
        ELSE IF step_status = "finished" THEN "finished"
        ELSE IF step_status \in {"failed", "stopped"} THEN "failed"
        ELSE IF full_workflow_status = "failed" THEN "failed"
        ELSE current_status
    ELSE IF current_status \in {"stopped", "deleted"} THEN "failed"
    ELSE IF current_status \in {"finished", "success", "failed"} THEN current_status
    ELSE IF ShortToken(step_status) THEN step_status ELSE "unknown"

\* VJob.update_status_from_workflow: the status stored after the call, given
\* what results.json (None if unreadable) and log.json hold for the job.
UpdateStatusFromWorkflow(j, full_workflow_status, matched_step) ==
    IF kind[j] = "algorithm" THEN status[j]
    ELSE IF status[j] \in {"finished", "success", "failed"} THEN status[j]
    ELSE IF full_workflow_status = None THEN status[j]
    ELSE UpdateJobStatus(status[j],
                         IF matched_step # NoStep THEN matched_step ELSE full_workflow_status,
                         full_workflow_status)

\* "not job.is_input and job.job_type() != 'algorithm'"
Active(job) == ~job.is_input /\ kind[job.path] # "algorithm"

ActivePaths == {asm.jobs[i].path : i \in {k \in DOMAIN asm.jobs : Active(asm.jobs[k])}}

\* The loop "for job in self.jobs: ... job.set_status(value)" over the active jobs.
SetActive(st, value) == [j \in DOMAIN st |-> IF j \in ActivePaths THEN value ELSE st[j]]

WritesOf(value) == {<<j, value>> : j \in ActivePaths}

\* Variant: the marking loop skips no job of the list.
MarkWaitingAll(st) ==
    [j \in DOMAIN st |-> IF \E i \in DOMAIN asm.jobs : asm.jobs[i].path = j
                         THEN "waiting" ELSE st[j]]

\* Variant: the marking loop writes nothing.
MarkWaitingSkipped(st) == st

\* Lines 113-118 of run().
MarkWaitingStatus(st) == SetActive(st, "waiting")

\* Variant: the reset loop writes nothing.
ResetRawSkipped(st) == st

\* Lines 229-235 of _wait_for_dependencies.
ResetRawStatus(st) == SetActive(st, "raw")

\* Lines 125-130 of run().
CommitStatus(st) == SetActive(st, "running")

\* Variant: set_workflow_id is not called.
CommitWorkflowIdSkipped(w) == w

CommitWorkflowId(w) == [j \in DOMAIN w |-> IF j \in ActivePaths THEN ThisWorkflow ELSE w[j]]

\* Variant: the except blocks leave the jobs as they are.
FailStatusSkipped(st) == st

\* The except blocks of run() and of _execute_backend.
FailStatus(st) == SetActive(st, "failed")

\* Variant: the except blocks leave the workflow status unwritten.
WorkflowStatusUnwritten == "unknown"

FailedWorkflowStatus == "failed"

\* Variant: archived input jobs are waited on as well.
PendingInputsWithArchived ==
    SelectSeq(asm.jobs, LAMBDA job :
        /\ job.is_input
        /\ status[job.path] # "finished"
        /\ kind[job.path] # "algorithm")

\* Variant: a failed input job is not waited on.
PendingInputsWithoutFailed ==
    SelectSeq(asm.jobs, LAMBDA job :
        /\ job.is_input
        /\ status[job.path] \notin {"archived", "finished", "failed"}
        /\ kind[job.path] # "algorithm")

\* The jobs an attempt waits on (line 183, and lines 197-204).
PendingInputs ==
    SelectSeq(asm.jobs, LAMBDA job :
        /\ job.is_input
        /\ status[job.path] \notin {"archived", "finished"}
        /\ kind[job.path] # "algorithm")

\* A workflow object made by VWorkflow.create: its identity and its UUID.
\* "workflow not in workflow_list" compares identities: VWorkflow defines no
\* __eq__, and every call of create makes a new object.
WorkflowIn(workflow, workflow_list) ==
    \E i \in DOMAIN workflow_list : workflow_list[i].id = workflow.id

\* Lines 186-190: the list of workflows to poll, one create per pending job.
RECURSIVE WorkflowList(_, _)
WorkflowList(pending, k) ==
    IF k = 0 THEN <<>>
    ELSE LET before == WorkflowList(pending, k - 1)
             uuid == wfid[pending[k].path]
             \* "self.uuid = uuid or csys.generate_uuid()"
             workflow == [id |-> k, uuid |-> IF uuid = "" THEN "generated" ELSE uuid]
         IN IF ~WorkflowIn(workflow, before) THEN Append(before, workflow) ELSE before

\* Lines 196-216: the jobs whose update_status_from_workflow is called; the
\* workflow tested is a new object, made after those of the list.
SyncedJobs(pending, workflow_list) ==
    {pending[k].path : k \in {i \in DOMAIN pending :
        WorkflowIn([id |-> Len(pending) + i, uuid |-> wfid[pending[i].path]], workflow_list)}}

\* Lines 218-221 over the pending jobs: all_finished of the attempt.
AllFinished(pending) == \A k \in DOMAIN pending : status[pending[k].path] = "finished"

\* "logs" of the engine's record when json.loads cannot decode it.
Undecodable == "undecodable"

\* What the engine can do with a status request: raise, or return a record
\* with a status and the logs (the status of the job's step in them).
EngineAnswers ==
    {CallRaises} \cup [status : ObservedWorkflow, step : ObservedStep \cup {NoStep, Undecodable}]

\* Variant: the except clause removes the stored record.
PollStoreCleared(record, answer) ==
    IF answer = CallRaises THEN [status |-> "unknown", step |-> NoStep]
    ELSE [status |-> answer.status,
          step |-> IF answer.step = Undecodable THEN NoStep ELSE answer.step]

\* ReanaWorkflow.update_workflow_status on the stored records: results.json
\* is written as soon as the engine has answered (line 250), log.json only
\* after json.loads of the logs (lines 255-256); every exception is caught.
PollStore(record, answer) ==
    IF answer = CallRaises THEN record
    ELSE [status |-> answer.status,
          step |-> IF answer.step = Undecodable THEN record.step ELSE answer.step]

\* Lines 193-194: the polls of the list, in order, on the records of the
\* workflow that owns the inputs; a workflow made for an empty id has a new
\* UUID and records of its own.
RECURSIVE PollAll(_, _, _, _)
PollAll(record, workflow_list, answers, k) ==
    IF k = 0 THEN record
    ELSE LET before == PollAll(record, workflow_list, answers, k - 1)
         IN  IF workflow_list[k].uuid = PriorWorkflow THEN PollStore(before, answers[k])
             ELSE before

\* Variant: the result of the wait is ignored.
AfterWaitIgnored(ok) == "commit"

\* "if not self._wait_for_dependencies(): return"
AfterWait(ok) == IF ok THEN "commit" ELSE "aborted"

InitRun ==
    /\ deps \in DepGraphs(RunJobs)
    /\ status \in [1..RunJobs -> RunStatuses]
    /\ kind \in [1..RunJobs -> Kinds]
    /\ environment \in {e \in [1..RunJobs -> {"img", "rawdata"}] :
                            \A j \in 2..RunJobs : e[j] = "img"}
    /\ rootMachine \in Machines
    /\ storedMachine = [j \in 1..RunJobs |->
                            IF status[j] \in TerminalForAssembly /\ kind[j] # "algorithm"
                            THEN rootMachine ELSE None]
    /\ roots \in SeqsUpTo(1..RunJobs, MaxRoots)
    /\ asm = AsmStart
    /\ pc = "construct"
    /\ mode \in {"reana", "dry"}
    /\ wfid = [j \in 1..RunJobs |-> IF status[j] \in TerminalForAssembly THEN PriorWorkflow ELSE ""]
    /\ wfStatus = "unknown"
    /\ iTries = 0
    /\ slept = 0
    /\ attempt = [polled |-> <<>>, synced |-> {}, all_finished |-> TRUE]
    /\ writes = {}
    /\ emitted = FALSE
    /\ backendLog = <<>>
    /\ raised = FALSE
    /\ op = NoOp
    /\ ServicesIdle

\* The states of construct_workflow_jobs at the head of an iteration of
\* "while stack:", from s on.
RECURSIVE AsmIterations(_)
AsmIterations(s) == IF s.stack = <<>> THEN {} ELSE {s} \cup AsmIterations(AsmStep(s))

\* run(), lines 99-104: the DAG assembly.
Construct ==
    /\ pc = "construct"
    /\ asm' = AsmRun(asm)
    /\ pc' = "mark"
    /\ UNCHANGED <<storeVars, op, serviceVars, storedMachine, status, runVars>>

\* run(), lines 99-104: an iteration of construct_workflow_jobs raises (a
\* job record that cannot be read). The call is in no try block: the
\* exception leaves run() with self.jobs as built so far.
ConstructFail ==
    /\ pc = "construct"
    /\ \E s \in AsmIterations(asm) : asm' = s
    /\ raised' = TRUE
    /\ pc' = "crashed"
    /\ UNCHANGED <<storeVars, op, serviceVars, storedMachine, status, mode, wfid, wfStatus, iTries, slept,
                   attempt, writes, emitted, backendLog>>

\* run(), lines 113-118.
MarkWaiting ==
    /\ pc = "mark"
    /\ status' = MarkWaitingStatus(status)
    /\ writes' = writes \cup WritesOf("waiting")
    /\ pc' = "wait"
    /\ UNCHANGED <<storeVars, op, serviceVars, storedMachine, asm, mode, wfid, wfStatus, iTries, slept,
                   attempt, emitted, backendLog, raised>>

\* One pass of the loop body of _wait_for_dependencies up to "break" or to
\* the sleep: the polls of the owning workflows (objects of the remote
\* class, as create makes them) change no job record.
WaitAttempt ==
    /\ pc = "wait"
    /\ iTries < MaxTries
    /\ LET pending == PendingInputs
           workflow_list == WorkflowList(pending, Len(pending))
           synced == SyncedJobs(pending, workflow_list)
           all_finished == AllFinished(pending)
       IN /\ attempt' = [polled |-> [i \in DOMAIN workflow_list |-> workflow_list[i].uuid],
                         synced |-> synced,
                         all_finished |-> all_finished]
          /\ \E answers \in [DOMAIN workflow_list -> engine] :
                /\ depResults' = PollAll(depResults, workflow_list, answers, Len(workflow_list))
                /\ polls' = [i \in DOMAIN workflow_list |->
                                [uuid |-> workflow_list[i].uuid,
                                 result |-> IF answers[i] = CallRaises THEN "raised_call"
                                            ELSE IF answers[i].step = Undecodable
                                            THEN "raised_logs" ELSE "ok"]]
          /\ iTries' = iTries + 1
          /\ pc' = IF all_finished THEN AfterWait(TRUE) ELSE "sleep"
    /\ UNCHANGED <<storeVars, op, notPollVars, engine, storedMachine, status, asm, mode, wfid,
                   wfStatus, slept, writes, emitted, backendLog, raised>>

\* Lines 185-186: VWorkflow.create of a pending job's workflow raises (the
\* constructor of the remote class sets up the engine's client). The loop is
\* in no try block: the exception leaves run().
WaitRaise ==
    /\ pc = "wait"
    /\ iTries < MaxTries
    /\ PendingInputs # <<>>
    /\ raised' = TRUE
    /\ pc' = "wait_raised"
    /\ UNCHANGED <<storeVars, op, serviceVars, storedMachine, status, asm, mode, wfid, wfStatus,
                   iTries, slept, attempt, writes, emitted, backendLog>>

\* "time.sleep(10)", then the next pass or the end of the loop.
Sleep ==
    /\ pc = "sleep"
    /\ slept' = slept + SleepDelay
    /\ pc' = IF iTries < MaxTries THEN "wait" ELSE "exhausted"
    /\ UNCHANGED <<storeVars, op, serviceVars, storedMachine, status, asm, mode, wfid, wfStatus, iTries,
                   attempt, writes, emitted, backendLog, raised>>

\* Lines 229-237: the loop ended without all_finished; run() returns.
WaitGiveUp ==
    /\ pc = "exhausted"
    /\ status' = ResetRawStatus(status)
    /\ writes' = writes \cup WritesOf("raw")
    /\ pc' = AfterWait(FALSE)
    /\ UNCHANGED <<storeVars, op, serviceVars, storedMachine, asm, mode, wfid, wfStatus, iTries, slept,
                   attempt, emitted, backendLog, raised>>

\* run(), lines 124-130.
Commit ==
    /\ pc = "commit"
    /\ wfid' = CommitWorkflowId(wfid)
    /\ status' = CommitStatus(status)
    /\ writes' = writes \cup WritesOf("running")
    /\ pc' = "emit"
    /\ UNCHANGED <<storeVars, op, serviceVars, storedMachine, asm, mode, wfStatus, iTries, slept,
                   attempt, emitted, backendLog, raised>>

\* f"step{job.short_uuid()}" and the names of the three fixed rules.
StepName(j) == <<"step", j>>

FixedRules == {<<"all">>, <<"setup">>, <<"finalize">>}

\* self.dependencies as construct_snake_file leaves it: the fixed rules, and
\* for every job of the list the steps of all the dependencies its
\* config.json names (lines 345-357).
SnakeDependencies ==
    [key \in FixedRules \cup {StepName(asm.jobs[i].path) : i \in DOMAIN asm.jobs} |->
        IF key = <<"all">> THEN << <<"finalize">> >>
        ELSE IF key = <<"setup">> THEN <<>>
        ELSE IF key = <<"finalize">> THEN [i \in DOMAIN asm.jobs |-> StepName(asm.jobs[i].path)]
        ELSE [k \in DOMAIN deps[key[2]] |-> StepName(deps[key[2]][k])]]

\* run(), lines 134-136: construct_snake_file returns.
EmitOk ==
    /\ pc = "emit"
    /\ emitted' = TRUE
    /\ pc' = "dispatch"
    /\ UNCHANGED <<storeVars, op, serviceVars, storedMachine, status, asm, mode, wfid, wfStatus, iTries,
                   slept, attempt, writes, backendLog, raised>>

\* run(), lines 137-146: construct_snake_file raises.
EmitFail ==
    /\ pc = "emit"
    /\ wfStatus' = FailedWorkflowStatus
    /\ status' = FailStatus(status)
    /\ writes' = writes \cup WritesOf("failed")
    /\ raised' = TRUE
    /\ pc' = "failed"
    /\ UNCHANGED <<storeVars, op, serviceVars, storedMachine, asm, mode, wfid, iTries, slept, attempt,
                   emitted, backendLog>>

\* run(), lines 148-150: every stage of _execute_backend returns. The local
\* backend then records that the tree is ready.
DispatchOk ==
    /\ pc = "dispatch"
    /\ backendLog' = BackendStages
    /\ wfStatus' = IF mode = "dry" THEN "ready_for_local_execution" ELSE wfStatus
    /\ pc' = "done"
    /\ UNCHANGED <<storeVars, op, serviceVars, storedMachine, status, asm, mode, wfid, iTries, slept,
                   attempt, writes, emitted, raised>>

\* Stage k of _execute_backend raises: its except block marks the workflow
\* and the jobs failed and re-raises, and the except block of run() (lines
\* 151-160) does the same.
DispatchFail ==
    /\ pc = "dispatch"
    /\ \E k \in DOMAIN BackendStages : backendLog' = SubSeq(BackendStages, 1, k)
    /\ wfStatus' = FailedWorkflowStatus
    /\ status' = FailStatus(FailStatus(status))
    /\ writes' = writes \cup WritesOf("failed")
    /\ raised' = TRUE
    /\ pc' = "failed"
    /\ UNCHANGED <<storeVars, op, serviceVars, storedMachine, asm, mode, wfid, iTries, slept, attempt,
                   emitted>>

\* Another process (the status route) runs update_status_from_workflow on a
\* job this run waits on; the job's owning workflow records are whatever
\* that workflow's polls left there.
ExternalSync ==
    /\ pc \in {"wait", "sleep"}
    /\ \E i \in DOMAIN asm.jobs :
        LET j == asm.jobs[i].path
        IN /\ asm.jobs[i].is_input
           /\ wfid[j] # ""
           /\ \E synced \in {UpdateStatusFromWorkflow(j, full, step) :
                                full \in ObservedWorkflow \cup {None},
                                step \in ObservedStep \cup {NoStep}} :
                status' = [status EXCEPT ![j] = synced]
           /\ storedMachine' = IF kind[j] = "algorithm" THEN storedMachine
                               ELSE [storedMachine EXCEPT ![j] = asm.jobs[i].machine_id]
    /\ UNCHANGED <<storeVars, op, serviceVars, asm, pc, runVars>>

Next ==
    \/ Construct
    \/ ConstructFail
    \/ MarkWaiting
    \/ WaitAttempt
    \/ WaitRaise
    \/ Sleep
    \/ WaitGiveUp
    \/ Commit
    \/ EmitOk
    \/ EmitFail
    \/ DispatchOk
    \/ DispatchFail
    \/ ExternalSync

Spec == InitRun /\ [][Next]_vars

\* A run of a task (job 2) whose input (job 1) belongs to a workflow that
\* is still running on an engine that answers in every way it can.
InitPoll ==
    /\ deps = <<<<>>, <<1>>>>
    /\ status = <<"running", "raw">>
    /\ kind = <<"task", "task">>
    /\ environment = <<"img", "img">>
    /\ rootMachine \in Machines
    /\ storedMachine = <<rootMachine, None>>
    /\ roots = <<2>>
    /\ asm = AsmStart
    /\ pc = "construct"
    /\ mode \in {"reana", "dry"}
    /\ wfid = <<PriorWorkflow, "">>
    /\ wfStatus = "unknown"
    /\ iTries = 0
    /\ slept = 0
    /\ attempt = [polled |-> <<>>, synced |-> {}, all_finished |-> TRUE]
    /\ writes = {}
    /\ emitted = FALSE
    /\ backendLog = <<>>
    /\ raised = FALSE
    /\ op = NoOp
    /\ IdleExcept("poll")
    /\ engine = EngineAnswers
    /\ depResults = [status |-> "unknown", step |-> NoStep]
    /\ polls = <<>>

SpecPoll == InitPoll /\ [][Next]_vars

\* A run of a task (job 2) whose input (job 1) was left failed, success or
\* finished by the workflow that owned it; a job processed from raw data is
\* an input job from its construction on.
InitDep ==
    /\ deps = <<<<>>, <<1>>>>
    /\ status \in {<<s, "raw">> : s \in {"failed", "success", "finished"}}
    /\ kind = <<"task", "task">>
    /\ environment \in {<<e, "img">> : e \in {"img", "rawdata"}}
    /\ rootMachine \in Machines
    /\ storedMachine = <<rootMachine, None>>
    /\ roots = <<2>>
    /\ asm = AsmStart
    /\ pc = "construct"
    /\ mode \in {"reana", "dry"}
    /\ wfid = <<PriorWorkflow, "">>
    /\ wfStatus = "unknown"
    /\ iTries = 0
    /\ slept = 0
    /\ attempt = [polled |-> <<>>, synced |-> {}, all_finished |-> TRUE]
    /\ writes = {}
    /\ emitted = FALSE
    /\ backendLog = <<>>
    /\ raised = FALSE
    /\ op = NoOp
    /\ IdleExcept("poll")
    /\ engine = EngineAnswers
    /\ depResults = [status |-> "unknown", step |-> NoStep]
    /\ polls = <<>>

SpecDep == InitDep /\ [][Next]_vars

\* The wait loop is sequential code: an attempt, the sleep after it and the
\* reset after the last one are carried out when they are due.
FairSpecDep == SpecDep /\ WF_vars(WaitAttempt) /\ WF_vars(Sleep) /\ WF_vars(WaitGiveUp)

\* ----------------------------------------------------------- status-sync
\* Number of job records the status-sync is checked over.
SyncJobs == 1
\* Status values a job record can hold when a sync, a kill or a run finds it
\* (the set-job-status route stores the value it is given).
JobStatuses ==
    {"raw", "waiting", "running", "success", "finished", "failed", "stopped", "deleted",
     "archived", "unknown"}
\* The value DryWorkflow._execute_backend stores: 25 characters.
ReadyForLocal == "ready_for_local_execution"
\* Values of "status" in the record the remote engine returns to a poll.
EngineStatuses == {"pending", "running", "finished", "failed", "stopped"}
\* Values DryWorkflow.update_workflow_status computes.
DryPollStatuses == {"finished", "running"}
\* Values of "status" of the job's step in log.json.
StepStatuses == {"success", "finished", "failed", "stopped", "running", ReadyForLocal}
\* Values run() writes with set_status.
RunWrites == {"waiting", "raw", "running", "failed"}
\* Variant: kill stores another word.
KilledAsAborted == "aborted"

\* The value DryWorkflow.kill stores.
KilledWorkflowStatus == "killed"

InitSync ==
    /\ deps = [j \in 1..SyncJobs |-> <<>>]
    /\ status \in [1..SyncJobs -> JobStatuses]
    /\ kind \in [1..SyncJobs -> Kinds]
    /\ environment = [j \in 1..SyncJobs |-> "img"]
    /\ rootMachine \in Machines
    /\ storedMachine = [j \in 1..SyncJobs |-> None]
    /\ roots = <<>>
    /\ asm = AsmStart
    /\ pc = "sync"
    /\ mode \in {"reana", "dry"}
    /\ wfid = [j \in 1..SyncJobs |-> PriorWorkflow]
    /\ wfStatus \in IF mode = "dry" THEN {"unknown", "failed", ReadyForLocal}
                    ELSE {"unknown", "failed"}
    /\ iTries = 0
    /\ slept = 0
    /\ attempt = [polled |-> <<>>, synced |-> {}, all_finished |-> TRUE]
    /\ writes = {}
    /\ emitted = FALSE
    /\ backendLog = <<>>
    /\ raised = FALSE
    /\ op = NoOp
    /\ ServicesIdle

\* job.update_status_from_workflow(workflow_path) as the status route calls
\* it: results.json is read (None if the read fails), the job's step is
\* looked up in log.json, and the job's record is rewritten.
SyncJob ==
    /\ pc = "sync"
    /\ \E j \in DOMAIN status, full \in {wfStatus, None}, step \in StepStatuses \cup {NoStep} :
        /\ status' = [status EXCEPT ![j] = UpdateStatusFromWorkflow(j, full, step)]
        /\ storedMachine' = IF kind[j] = "algorithm" THEN storedMachine
                            ELSE [storedMachine EXCEPT ![j] = rootMachine]
        /\ op' = [name |-> "sync", job |-> j, before |-> status[j], full |-> full, step |-> step]
    /\ UNCHANGED <<storeVars, serviceVars, asm, pc, runVars>>

\* update_workflow_status of the owning workflow: the remote backend stores
\* the record the engine returns, the local backend the value it computes;
\* a poll that raises is logged and stores nothing.
PollWorkflow ==
    /\ pc = "sync"
    /\ \E observed \in (IF mode = "dry" THEN DryPollStatuses ELSE EngineStatuses) \cup {wfStatus} :
        wfStatus' = observed
    /\ op' = [NoOp EXCEPT !.name = "poll"]
    /\ UNCHANGED <<storeVars, serviceVars, storedMachine, status, asm, pc, mode, wfid, iTries, slept,
                   attempt, writes, emitted, backendLog, raised>>

\* ImpressionStorage.kill and the kill route: kill() of the workflow
\* rehydrated from the job's workflow id (the local backend stores killed
\* and finds its job list empty, the remote one asks the engine to stop and
\* writes nothing), then the job the kill was asked for is failed.
KillWorkflow ==
    /\ pc = "sync"
    /\ wfStatus' = IF mode = "dry" THEN KilledWorkflowStatus ELSE wfStatus
    /\ \E j \in DOMAIN status :
        /\ status' = [status EXCEPT ![j] = "failed"]
        /\ op' = [NoOp EXCEPT !.name = "kill", !.job = j, !.before = status[j]]
    /\ UNCHANGED <<storeVars, serviceVars, storedMachine, asm, pc, mode, wfid, iTries, slept,
                   attempt, writes, emitted, backendLog, raised>>

\* A write of run() to the job's record: set_status(value).
SetJobStatus ==
    /\ pc = "sync"
    /\ \E j \in DOMAIN status, value \in RunWrites :
        /\ status' = [status EXCEPT ![j] = value]
        /\ op' = [NoOp EXCEPT !.name = "set", !.job = j, !.before = status[j]]
    /\ UNCHANGED <<storeVars, serviceVars, storedMachine, asm, pc, runVars>>

NextSync ==
    \/ SyncJob
    \/ PollWorkflow
    \/ KillWorkflow
    \/ SetJobStatus

SpecSync == InitSync /\ [][NextSync]_vars

\* Jobs of the workflow that is killed.
KillJobs == 2

\* A submitted workflow of KillJobs jobs, all carrying its id.
InitKill ==
    /\ deps = [j \in 1..KillJobs |-> <<>>]
    /\ status \in [1..KillJobs -> {"running", "waiting"}]
    /\ kind \in [1..KillJobs -> Kinds]
    /\ environment = [j \in 1..KillJobs |-> "img"]
    /\ rootMachine \in Machines
    /\ storedMachine = [j \in 1..KillJobs |-> None]
    /\ roots = <<>>
    /\ asm = AsmStart
    /\ pc = "sync"
    /\ mode \in {"reana", "dry"}
    /\ wfid = [j \in 1..KillJobs |-> PriorWorkflow]
    /\ wfStatus = IF mode = "dry" THEN ReadyForLocal ELSE "running"
    /\ iTries = 0
    /\ slept = 0
    /\ attempt = [polled |-> <<>>, synced |-> {}, all_finished |-> TRUE]
    /\ writes = {}
    /\ emitted = FALSE
    /\ backendLog = <<>>
    /\ raised = FALSE
    /\ op = NoOp
    /\ ServicesIdle

SpecKill == InitKill /\ [][NextSync]_vars

\* ------------------------------------------------------- backend selection
\* create(), lines 73-74: machine_id is read from config.json under
\* Workflows/<uuid>, a directory without the project part. __init__ (lines
\* 37-54) writes the file under Workflows/<project>/<uuid>; nothing writes
\* the one read here, so read_variable returns its default.
CreateRunnerId(w) == ""

\* "backend_types.get(runner_id, 'reana')"
BackendTypeOf(runner_id) ==
    IF runner_id \in DOMAIN backendTypes /\ backendTypes[runner_id] # None
    THEN backendTypes[runner_id] ELSE "reana"

\* VWorkflow.create(project_uuid, [], uuid) without a mode: the class of the
\* object returned.
CreateMode(w) == IF BackendTypeOf(CreateRunnerId(w)) = "dry" THEN "dry" ELSE "reana"

\* No job is stored and no run is under way.
StoreEmpty ==
    /\ deps = <<>>
    /\ status = <<>>
    /\ kind = <<>>
    /\ environment = <<>>
    /\ rootMachine \in Machines
    /\ storedMachine = <<>>
    /\ roots = <<>>
    /\ asm = AsmStart
    /\ RunIdle

InitCreate ==
    /\ StoreEmpty
    /\ pc = "create"
    /\ op = NoOp
    /\ backendTypes = [m \in SiteMachines |-> None]
    /\ recordedMachine \in [StoredWorkflows -> SiteMachines]
    /\ created = [w \in StoredWorkflows |-> "none"]
    /\ IdleExcept("create")

\* VWorkflow.create for a stored workflow, as the status route, the wait
\* loop and the impression storage call it.
CreateWorkflow ==
    /\ pc = "create"
    /\ \E w \in StoredWorkflows : created' = [created EXCEPT ![w] = CreateMode(w)]
    /\ UNCHANGED <<storeVars, op, storedMachine, status, asm, pc, runVars, notCreateVars,
                   backendTypes, recordedMachine>>

\* The register-runner route stores the backend type of a site.
RegisterRunner ==
    /\ pc = "create"
    /\ \E m \in SiteMachines, t \in {"dry", "reana"} :
        backendTypes' = [backendTypes EXCEPT ![m] = t]
    /\ UNCHANGED <<storeVars, op, storedMachine, status, asm, pc, runVars, notCreateVars,
                   recordedMachine, created>>

\* The remove-runner route deletes the backend type of a site.
RemoveRunner ==
    /\ pc = "create"
    /\ \E m \in SiteMachines : backendTypes' = [backendTypes EXCEPT ![m] = None]
    /\ UNCHANGED <<storeVars, op, storedMachine, status, asm, pc, runVars, notCreateVars,
                   recordedMachine, created>>

NextCreate ==
    \/ CreateWorkflow
    \/ RegisterRunner
    \/ RemoveRunner

SpecCreate == InitCreate /\ [][NextCreate]_vars

\* ----------------------------------------------- backend selection: claims
\* C21 (as stated): create without a mode returns the local backend exactly
\* when the backend type configured for the machine recorded for the
\* workflow is dry, and the remote backend otherwise.
C21_AsStated ==
    [][\A w \in StoredWorkflows : created'[w] # created[w] =>
        (created'[w] = "dry" <=> backendTypes[recordedMachine[w]] = "dry")]_vars

\* Two workflows recorded for two sites, one site configured dry and the
\* other remote, and create has returned the remote backend for both.
C21_Witness ==
    /\ recordedMachine["wA"] = "m1"
    /\ recordedMachine["wB"] = "m2"
    /\ backendTypes["m1"] = "dry"
    /\ backendTypes["m2"] = "reana"
    /\ created["wA"] = "reana"
    /\ created["wB"] = "reana"

\* ----------------------------------------------------------- local backend
\* Jobs a local workflow's manifest can list.
LocalJobs == 3

\* Variant: the loop's break also ends the count.
LocalCompletedUntilBreak(jobs, done) ==
    Cardinality({i \in DOMAIN jobs : \A k \in 1..i : jobs[k] \in done})

\* "sum(1 for job_uuid in jobs if os.path.exists(<job_uuid>.done))"
LocalCompleted(jobs, done) == Cardinality({i \in DOMAIN jobs : jobs[i] \in done})

\* all_done after the loop of lines 179-187: false at the first missing marker.
LocalAllDone(jobs, done) == \A i \in DOMAIN jobs : jobs[i] \in done

\* The "results" dictionary of lines 189-209.
LocalResultsOf(jobs, done) ==
    [written |-> TRUE,
     status |-> IF LocalAllDone(jobs, done) THEN "finished" ELSE "running",
     total |-> Len(jobs),
     completed |-> LocalCompleted(jobs, done)]

InitLocal ==
    /\ StoreEmpty
    /\ pc = "local"
    /\ op = NoOp
    /\ IdleExcept("local")
    /\ manifest \in [present : BOOLEAN, jobs : InjSeqs(1..LocalJobs)]
    /\ manifest.present \/ manifest.jobs = <<>>
    /\ markers = {}
    /\ localResults = NoResults

\* DryWorkflow.update_workflow_status; the jobs are the ids after "step" in
\* the manifest's step names. open() of a missing manifest raises inside the
\* try, and the except clause only logs.
UpdateLocalStatus ==
    /\ pc = "local"
    /\ localResults' = IF manifest.present THEN LocalResultsOf(manifest.jobs, markers)
                       ELSE localResults
    /\ op' = [NoOp EXCEPT !.name = "local_update"]
    /\ UNCHANGED <<storeVars, storedMachine, status, asm, pc, runVars, notLocalVars,
                   manifest, markers>>

\* The local execution of a rule ends with "touch <id>.done".
TouchMarker ==
    /\ pc = "local"
    /\ \E j \in 1..LocalJobs : markers' = markers \cup {j}
    /\ op' = [NoOp EXCEPT !.name = "touch"]
    /\ UNCHANGED <<storeVars, storedMachine, status, asm, pc, runVars, notLocalVars,
                   manifest, localResults>>

\* The operator cleans the local execution directory of a marker.
RemoveMarker ==
    /\ pc = "local"
    /\ \E j \in markers : markers' = markers \ {j}
    /\ op' = [NoOp EXCEPT !.name = "remove"]
    /\ UNCHANGED <<storeVars, storedMachine, status, asm, pc, runVars, notLocalVars,
                   manifest, localResults>>

NextLocal ==
    \/ UpdateLocalStatus
    \/ TouchMarker
    \/ RemoveMarker

SpecLocal == InitLocal /\ [][NextLocal]_vars

\* --------------------------------------------------- local backend: claims
\* update_workflow_status has just returned for a workflow with a manifest.
LocalUpdated == op.name = "local_update" /\ manifest.present

JobsOf(jobs) == {jobs[i] : i \in DOMAIN jobs}

\* C22: after the local backend's update_workflow_status, the persisted
\* status is finished if and only if the marker of every job of the manifest
\* exists and running otherwise, total is the number of jobs of the manifest
\* and completed the number of them whose marker exists.
C22_LocalStatus ==
    LocalUpdated =>
        /\ localResults.written
        /\ localResults.status = "finished" <=> JobsOf(manifest.jobs) \subseteq markers
        /\ localResults.status = "running" <=> ~(JobsOf(manifest.jobs) \subseteq markers)
        /\ localResults.total = Cardinality(JobsOf(manifest.jobs))
        /\ localResults.completed = Cardinality(JobsOf(manifest.jobs) \cap markers)

\* Three jobs, the markers of the second and third exist and the first
\* job's does not: running with 2 of 3 completed.
C22_Witness ==
    /\ LocalUpdated
    /\ Len(manifest.jobs) = 3
    /\ markers = {manifest.jobs[2], manifest.jobs[3]}
    /\ localResults = [written |-> TRUE, status |-> "running", total |-> 3, completed |-> 2]

\* ------------------------------------------------------------ status cache
\* Ticks the clock runs for.
MaxClock == 4
\* "time.time() - last_consult_time < 1": the lifetime of an entry, in time
\* units.
CacheExpiry == 1

\* Variant: an entry exactly one time unit old is still served.
CacheFreshInclusive(entry) == clock - entry.last <= CacheExpiry * TicksPerUnit

\* "if time.time() - last_consult_time < 1"
CacheFresh(entry) == clock - entry.last < CacheExpiry * TicksPerUnit

InitCache ==
    /\ StoreEmpty
    /\ pc = "cache"
    /\ op = NoOp
    /\ IdleExcept("cache")
    /\ CacheIdle

\* VWorkflow.status() of the workflow with UUID w: the entry of w if it is
\* fresh; else "unknown" if there is no results.json; else the recorded
\* status, which is stored in the table with the time of the call.
StatusCall ==
    /\ pc = "cache"
    /\ \E w \in StoredWorkflows :
        LET entry == consultTable[w]
        IN  IF CacheFresh(entry)
            THEN /\ lastCall' = [uuid |-> w, value |-> entry.status, hit |-> TRUE, at |-> clock]
                 /\ UNCHANGED consultTable
            ELSE IF records[w] = "absent"
            THEN /\ lastCall' = [uuid |-> w, value |-> "unknown", hit |-> FALSE, at |-> clock]
                 /\ UNCHANGED consultTable
            ELSE /\ lastCall' = [uuid |-> w, value |-> records[w], hit |-> FALSE, at |-> clock]
                 /\ consultTable' = [consultTable EXCEPT
                                        ![w] = [status |-> records[w], last |-> clock]]
    /\ UNCHANGED <<storeVars, op, storedMachine, status, asm, pc, runVars, notCacheVars, clock,
                   records>>

\* set_workflow_status or a poll writes the status record of a workflow.
StoreRecord ==
    /\ pc = "cache"
    /\ \E w \in StoredWorkflows, value \in {"running", "finished"} :
        records' = [records EXCEPT ![w] = value]
    /\ UNCHANGED <<storeVars, op, storedMachine, status, asm, pc, runVars, notCacheVars, clock,
                   consultTable, lastCall>>

\* Time passes.
Tick ==
    /\ pc = "cache"
    /\ clock < MaxClock
    /\ clock' = clock + 1
    /\ UNCHANGED <<storeVars, op, storedMachine, status, asm, pc, runVars, notCacheVars,
                   consultTable, records, lastCall>>

NextCache ==
    \/ StatusCall
    \/ StoreRecord
    \/ Tick

SpecCache == InitCache /\ [][NextCache]_vars

\* ---------------------------------------------------- status cache: claims
\* C28: status() of a workflow returns the table's value exactly when the
\* entry of that workflow's UUID was filled less than one time unit ago, and
\* then leaves the entry (its time included) as it is; otherwise it returns
\* what the workflow's status record holds (unknown if there is none); it
\* never touches or returns the entry of another UUID.
C28_CacheExpiry ==
    [][lastCall' # lastCall =>
        LET w == lastCall'.uuid
            filled == consultTable[w] # NeverConsulted
            age == clock - consultTable[w].last
        IN  /\ lastCall'.hit <=> (filled /\ age < CacheExpiry * TicksPerUnit)
            /\ lastCall'.hit =>
                /\ lastCall'.value = consultTable[w].status
                /\ consultTable' = consultTable
            /\ ~lastCall'.hit =>
                /\ lastCall'.value = IF records[w] = "absent" THEN "unknown" ELSE records[w]
                /\ records[w] # "absent" =>
                    consultTable'[w] = [status |-> records[w], last |-> clock]
            /\ \A v \in StoredWorkflows \ {w} : consultTable'[v] = consultTable[v]]_vars

\* Workflow wA's entry was filled at time 0 with running; its record became
\* finished; a call one tick later was served running from the table, while
\* wB's entry holds finished.
C28_Witness ==
    /\ lastCall = [uuid |-> "wA", value |-> "running", hit |-> TRUE, at |-> 1]
    /\ consultTable["wA"] = [status |-> "running", last |-> 0]
    /\ consultTable["wB"].status = "finished"
    /\ records["wA"] = "finished"

\* ------------------------------------------------- transfers to the engine
\* Content files of the jobs of a submit.
UploadFiles == 2
\* Files the engine lists for one class of an impression.
RemoteFiles == 2
\* Calls that raise at the same time.
MaxBroken == 1

\* The i-th file of a class; index 0 names the call that is not a file
\* transfer (create_workflow, start_workflow, list_files of the class).
File(c, i) == <<c, i>>

\* upload_file: the jobs' files in job order, then Snakefile and reana.yaml.
PlanOf(n) ==
    [i \in 1..n |-> File("content", i)] \o <<File("Snakefile", 1), File("reana.yaml", 1)>>

\* Everything a submit or a download asks of the engine.
EngineCalls ==
    {File("create_workflow", 0), File("start_workflow", 0)}
        \cup {File(c, i) : c \in Classes, i \in 0..RemoteFiles}
        \cup {PlanOf(UploadFiles)[i] : i \in DOMAIN PlanOf(UploadFiles)}

\* Variant: a transfer that raises is passed over.
FirstBrokenNever(files) == Len(files) + 1

\* Index of the first transfer of the loop that raises (Len + 1: none does).
\* No loop catches inside its body, so the loop ends there.
FirstBroken(files) ==
    LET bad == {i \in DOMAIN files : files[i] \in broken}
    IN  IF bad = {} THEN Len(files) + 1 ELSE CHOOSE i \in bad : \A k \in bad : i <= k

\* Variant: the marker is written whether or not the loop ended.
FetchClassMarkAlways(c) ==
    IF marker[c] THEN [calls |-> <<>>, got |-> {}, done |-> TRUE]
    ELSE IF File(c, 0) \in broken THEN [calls |-> <<File(c, 0)>>, got |-> {}, done |-> TRUE]
    ELSE LET files == remote[c]
             k == FirstBroken(files)
         IN  [calls |-> <<File(c, 0)>> \o SubSeq(files, 1, IF k <= Len(files) THEN k ELSE Len(files)),
              got |-> {files[i] : i \in 1..(k - 1)},
              done |-> TRUE]

\* One try block of download / download_outputs / download_logs: nothing if
\* the class's marker exists; else list_files, one download_file per listed
\* file until one raises, and the marker if none did.
FetchClass(c) ==
    IF marker[c] THEN [calls |-> <<>>, got |-> {}, done |-> TRUE]
    ELSE IF File(c, 0) \in broken THEN [calls |-> <<File(c, 0)>>, got |-> {}, done |-> FALSE]
    ELSE LET files == remote[c]
             k == FirstBroken(files)
         IN  [calls |-> <<File(c, 0)>> \o SubSeq(files, 1, IF k <= Len(files) THEN k ELSE Len(files)),
              got |-> {files[i] : i \in 1..(k - 1)},
              done |-> k > Len(files)]

\* The classes each download operation covers.
Covers(name) ==
    IF name = "download" THEN {"stageout", "logs"}
    ELSE IF name = "download_outputs" THEN {"stageout"}
    ELSE IF name = "download_logs" THEN {"logs"}
    ELSE {}

InitTransfer ==
    /\ StoreEmpty
    /\ pc = "transfer"
    /\ op = NoOp
    /\ IdleExcept("transfer")
    /\ \E n \in 0..UploadFiles : plan = PlanOf(n)
    /\ broken \in {b \in SUBSET EngineCalls : Cardinality(b) <= MaxBroken}
    /\ sent = <<>>
    /\ \E k \in [Classes -> 0..RemoteFiles] :
        remote = [c \in Classes |-> [i \in 1..k[c] |-> File(c, i)]]
    /\ fetched = [c \in Classes |-> {}]
    /\ marker = [c \in Classes |-> FALSE]
    /\ remoteCalls = <<>>

\* ReanaWorkflow._execute_backend: create_workflow, upload_file,
\* start_workflow, each in a try whose except marks the workflow failed and
\* re-raises.
Submit ==
    /\ pc = "transfer"
    /\ LET k == FirstBroken(plan)
           created_ok == File("create_workflow", 0) \notin broken
           uploaded_ok == created_ok /\ k > Len(plan)
           started_ok == uploaded_ok /\ File("start_workflow", 0) \notin broken
       IN /\ backendLog' = IF ~created_ok THEN SubSeq(BackendStages, 1, 1)
                           ELSE IF ~uploaded_ok THEN SubSeq(BackendStages, 1, 2)
                           ELSE BackendStages
          /\ sent' = IF created_ok THEN SubSeq(plan, 1, k - 1) ELSE <<>>
          /\ wfStatus' = IF started_ok THEN wfStatus ELSE FailedWorkflowStatus
          /\ raised' = ~started_ok
    /\ op' = [NoOp EXCEPT !.name = "submit"]
    /\ UNCHANGED <<storeVars, storedMachine, status, asm, pc, mode, wfid, iTries, slept, attempt,
                   writes, emitted, notTransferVars, plan, broken, remote, fetched, marker,
                   remoteCalls>>

\* download(impression), download_outputs(impression) or
\* download_logs(impression): the try block of each class covered, stageout
\* first.
Download ==
    /\ pc = "transfer"
    /\ \E name \in {"download", "download_outputs", "download_logs"} :
        /\ fetched' = [c \in Classes |->
                          IF c \in Covers(name) THEN fetched[c] \cup FetchClass(c).got
                          ELSE fetched[c]]
        /\ marker' = [c \in Classes |->
                          IF c \in Covers(name) THEN FetchClass(c).done ELSE marker[c]]
        /\ remoteCalls' = (IF "stageout" \in Covers(name) THEN FetchClass("stageout").calls
                           ELSE <<>>)
                          \o (IF "logs" \in Covers(name) THEN FetchClass("logs").calls ELSE <<>>)
        /\ op' = [NoOp EXCEPT !.name = name]
    /\ UNCHANGED <<storeVars, storedMachine, status, asm, pc, runVars, notTransferVars, plan,
                   broken, sent, remote>>

\* A call that raised works again (the failure was transient).
Heal ==
    /\ pc = "transfer"
    /\ \E f \in broken : broken' = broken \ {f}
    /\ op' = [NoOp EXCEPT !.name = "heal"]
    /\ UNCHANGED <<storeVars, storedMachine, status, asm, pc, runVars, notTransferVars, plan,
                   sent, remote, fetched, marker, remoteCalls>>

NextTransfer ==
    \/ Submit
    \/ Download
    \/ Heal

SpecTransfer == InitTransfer /\ [][NextTransfer]_vars

\* ------------------------------------------- transfers to the engine: claims
\* _execute_backend of the remote backend has just returned or raised.
Submitted == op.name = "submit"

Invoked(stage) == \E i \in DOMAIN backendLog : backendLog[i] = stage

\* Every element of the sequence.
Range(f) == {f[i] : i \in DOMAIN f}

\* C23: the remote submit invokes its stages in the order create, upload,
\* start; start is invoked only if create and every upload succeeded, and a
\* stage that fails is the last stage invoked.
C23_StageOrder ==
    Submitted =>
        /\ backendLog \in {<<"create_workflow">>,
                           <<"create_workflow", "upload_file">>,
                           <<"create_workflow", "upload_file", "start_workflow">>}
        /\ Invoked("start_workflow") =>
            /\ File("create_workflow", 0) \notin broken
            /\ Range(plan) \cap broken = {}
            /\ sent = plan
        /\ File("create_workflow", 0) \in broken => (backendLog = <<"create_workflow">> /\ sent = <<>>)
        /\ Range(plan) \cap broken # {} => ~Invoked("start_workflow")
        /\ (File("create_workflow", 0) \in broken \/ Range(plan) \cap broken # {}) =>
            (raised /\ wfStatus = "failed")

\* The upload of the build script raised after both content files were
\* sent: upload was the last stage and the submit failed.
C23_Witness ==
    /\ Submitted
    /\ Len(plan) = 4
    /\ broken = {File("Snakefile", 1)}
    /\ sent = <<File("content", 1), File("content", 2)>>
    /\ backendLog = <<"create_workflow", "upload_file">>
    /\ raised

\* The files of the loop that come before the first one whose transfer raises.
BeforeFailure(files) ==
    {files[i] : i \in {n \in DOMAIN files : \A k \in 1..n : files[k] \notin broken}}

\* C26 (as stated): when the transfer of one file fails, every other file of
\* the same download or upload is still transferred.
C26_AsStated ==
    /\ Submitted /\ File("create_workflow", 0) \notin broken =>
        Range(plan) \ broken \subseteq Range(sent)
    /\ \A c \in Covers(op.name) :
        File(c, 0) \notin broken => Range(remote[c]) \ broken \subseteq fetched[c]

\* download found the first of two stageout files failing: the second one,
\* whose transfer works, was not fetched, and logs were downloaded.
C26_Witness ==
    /\ op.name = "download"
    /\ Len(remote["stageout"]) = 2
    /\ broken = {File("stageout", 1)}
    /\ fetched["stageout"] = {}
    /\ ~marker["stageout"]
    /\ marker["logs"]
    /\ Len(remote["logs"]) = 2
    /\ fetched["logs"] = Range(remote["logs"])

\* C27: a download operation makes no engine call for a class whose marker
\* exists and leaves that class's files and marker as they are; a marker
\* exists only if every listed file of the class was fetched; and for a
\* class without marker the operation lists again and fetches again from the
\* first file, whatever an earlier call had fetched.
C27_MarkerIdempotent ==
    [][\A c \in Covers(op'.name) :
        /\ marker[c] =>
            /\ \A i \in DOMAIN remoteCalls' : remoteCalls'[i][1] # c
            /\ fetched'[c] = fetched[c]
            /\ marker'[c]
        /\ marker'[c] => Range(remote[c]) \subseteq fetched'[c]
        /\ ~marker[c] =>
            /\ \E i \in DOMAIN remoteCalls' : remoteCalls'[i] = File(c, 0)
            /\ File(c, 0) \notin broken =>
                \A f \in BeforeFailure(remote[c]) :
                    \E i \in DOMAIN remoteCalls' : remoteCalls'[i] = f]_vars

\* download_outputs failed at the second of two files: the first file is
\* stored, no marker was written, and the next call is not skipped.
C27_Witness ==
    /\ op.name = "download_outputs"
    /\ Len(remote["stageout"]) = 2
    /\ broken = {File("stageout", 2)}
    /\ ~marker["stageout"]
    /\ remoteCalls = <<File("stageout", 0), File("stageout", 1), File("stageout", 2)>>
    /\ fetched["stageout"] = {File("stageout", 1)}

\* ------------------------------------------------ build script and commands
\* "self.impression()[:7]": the length of a short ID.
ShortLen == 7
\* Longest command template the compiler is run over.
TemplateLen == 4

\* Impression UUIDs, shortened to nine characters: the job a rule is generated
\* for, the Build job a Task runs the code of, and a job whose output is read
\* under an alias.
JobId == <<"f", "e", "d", "c", "b", "a", "9", "8", "7">>
BuildId == <<"a", "b", "c", "d", "e", "f", "1", "2", "3">>
DataId == <<"0", "1", "2", "3", "4", "5", "6", "7", "8">>

\* short_uuid(), "impression[:7]"
Short(impression) ==
    SubSeq(impression, 1, IF Len(impression) < ShortLen THEN Len(impression) ELSE ShortLen)

\* f"{short}.done"
Done(short) == short \o <<".done">>

SetupDone == <<"setup", ".done">>

\* "${" + name + "}"
Placeholder(name) == <<"$", "{">> \o name \o <<"}">>

\* Python "s.replace(old, new)" for a non-empty old: every occurrence of old,
\* found left to right without overlap, is replaced; what was inserted is not
\* searched again.
RECURSIVE Replace(_, _, _)
Replace(s, old, new) ==
    IF Len(s) < Len(old) THEN s
    ELSE IF SubSeq(s, 1, Len(old)) = old
    THEN new \o Replace(SubSeq(s, Len(old) + 1, Len(s)), old, new)
    ELSE <<Head(s)>> \o Replace(Tail(s), old, new)

\* "for ...: command = command.replace(placeholder, value)" over a list of
\* [old, new] pairs, in the order of the list.
RECURSIVE SubstituteEach(_, _)
SubstituteEach(command, pairs) ==
    IF pairs = <<>> THEN command
    ELSE SubstituteEach(Replace(command, Head(pairs).old, Head(pairs).new), Tail(pairs))

\* Parameter names in the order of sorted().
NameOrder == << <<"a">>, <<"b">> >>

\* "sorted(parameters.keys())"
SortedKeys(values) == SelectSeq(NameOrder, LAMBDA n : n \in DOMAIN values)

\* _substitute_parameters
SubstituteParameters(command, values) ==
    LET keys == SortedKeys(values)
    IN  SubstituteEach(command,
            [i \in DOMAIN keys |-> [old |-> Placeholder(keys[i]), new |-> values[keys[i]]]])

\* _substitute_inputs
SubstituteInputs(command, aliases) ==
    SubstituteEach(command,
        [i \in DOMAIN aliases |->
            [old |-> Placeholder(aliases[i].alias),
             new |-> <<"../imp">> \o Short(aliases[i].impression)]])

\* _substitute_paths of the job JobId; image is <<>> when the job has no Build
\* job.
SubstitutePaths(command, image) ==
    LET workspace == Replace(command,
                        Placeholder(<<"w", "o", "r", "k", "s", "p", "a", "c", "e">>),
                        <<"..">>)
        output == Replace(workspace, Placeholder(<<"o", "u", "t", "p", "u", "t">>),
                        <<"imp">> \o Short(JobId))
    IN  IF image # <<>>
        THEN Replace(output, Placeholder(<<"c", "o", "d", "e">>), <<"../imp">> \o Short(image))
        ELSE output

\* _process_user_commands of a Task job j whose Build job has the one command
\* j.template (the command of index 0).
ProcessUserCommands(j) ==
    IF j.is_input THEN <<>>
    ELSE LET parameters == SubstituteParameters(j.template, j.values)
             inputs == SubstituteInputs(parameters, j.aliases)
             paths == SubstitutePaths(inputs, j.image)
             wrapped == <<"{", "{", " ">> \o paths
                        \o <<" ", ";", " ", "}", "}", " >> logs/celebi_user_step0.log 2>&1">>
         IN  << Replace(wrapped, <<"\"">>, <<"\\", "\"">>) >>

\* _create_directory_commands of the job JobId
DirectoryCommands ==
    << <<"mkdir -p imp">> \o Short(JobId) \o <<"/stageout">>,
       <<"mkdir -p imp">> \o Short(JobId) \o <<"/logs">>,
       <<"cd imp">> \o Short(JobId) >>

\* _create_symlink_commands
SymlinkCommands(j) ==
    (IF j.image # <<>> THEN << <<"ln -s ../imp">> \o Short(j.image) \o <<" code">> >> ELSE <<>>)
    \o [i \in DOMAIN j.aliases |->
            <<"ln -s ../imp">> \o Short(j.aliases[i].impression) \o <<" ">> \o j.aliases[i].alias]

\* The two stage-out commands of snakemake_rule (lines 181-182).
StageoutCommands ==
    << <<"mkdir -p ", "eos_path", "/", "project_uuid", "/">> \o JobId \o <<"/">>,
       <<"cp -r stageout/* ", "eos_path", "/", "project_uuid", "/">> \o JobId \o <<"/">> >>

\* The two commands every sequence ends with (lines 183-184).
ClosingCommands == << <<"cd ..">>, <<"touch ">> \o Done(Short(JobId)) >>

\* Variant: the stage-out commands are appended after the closing ones.
SnakemakeCommandsStageoutLast(j, use_eos) ==
    DirectoryCommands \o SymlinkCommands(j) \o ProcessUserCommands(j) \o ClosingCommands
    \o (IF ~j.is_input /\ use_eos THEN StageoutCommands ELSE <<>>)

\* "commands" of VContainer.snakemake_rule (lines 174-184).
SnakemakeCommands(j, use_eos) ==
    DirectoryCommands \o SymlinkCommands(j) \o ProcessUserCommands(j)
    \o (IF ~j.is_input /\ use_eos THEN StageoutCommands ELSE <<>>)
    \o ClosingCommands

\* " && ".join(commands)
RECURSIVE JoinAnd(_)
JoinAnd(commands) ==
    IF commands = <<>> THEN <<>>
    ELSE IF Len(commands) = 1 THEN commands[1]
    ELSE commands[1] \o <<" && ">> \o JoinAnd(Tail(commands))

\* VContainer._get_step_inputs
StepInputs(j) ==
    IF j.is_input THEN <<SetupDone>>
    ELSE <<SetupDone>>
         \o [i \in DOMAIN j.aliases |-> Done(Short(j.aliases[i].impression))]
         \o (IF j.image # <<>> THEN <<Done(Short(j.image))>> ELSE <<>>)

\* The rule construct_snake_file writes for job j: the inputs of
\* VImage.snakemake_rule for a Build job and of VContainer.snakemake_rule for
\* a Task job, and the output "<short ID>.done".
RuleOf(j) ==
    [made |-> TRUE,
     inputs |-> IF j.kind = "algorithm" THEN <<SetupDone>> ELSE StepInputs(j),
     output |-> Done(Short(JobId))]

\* Characters of a command template and the templates themselves.
Symbols == {"$", "{", "}", "a", "b", "d"}

Templates == UNION {[1..n -> Symbols] : n \in 0..TemplateLen}

\* Values a parameter is declared with.
ParamValues == {<<"x">>, Placeholder(<<"a">>)}

\* The "parameters" mappings of celebi.yaml.
ParamMaps == UNION {[names -> ParamValues] : names \in SUBSET {<<"a">>, <<"b">>}}

\* The "alias_to_impression" mappings of config.json.
AliasMaps == {<<>>, <<[alias |-> <<"d">>, impression |-> DataId]>>}

\* A job a rule is generated for: a Task job has a Build job among its
\* dependencies, a Build job has none; the other dependencies of a job are
\* the impressions of its aliases.
ScriptJob(k, inp, al, v, t) ==
    [kind |-> k, is_input |-> inp, aliases |-> al,
     image |-> IF k = "task" THEN BuildId ELSE <<>>,
     values |-> v, template |-> t]

InitScript ==
    /\ StoreEmpty
    /\ pc = "script"
    /\ op = NoOp
    /\ IdleExcept("script")
    /\ \E k \in {"task", "algorithm"}, inp \in BOOLEAN, al \in AliasMaps :
        \E v \in IF k = "task" THEN ParamMaps ELSE {<<>>},
           t \in IF k = "task" THEN Templates ELSE {<<>>} :
            stepJob = ScriptJob(k, inp, al, v, t)
    /\ stepCommand = NotCompiled
    /\ stepRule = [made |-> FALSE, inputs |-> <<>>, output |-> <<>>]

\* VContainer.snakemake_rule compiles the commands of a Task job, which is
\* set to use the remote storage or not; construct_snake_file joins them
\* into the shell command of the rule (line 375).
CompileCommand ==
    /\ pc = "script"
    /\ stepJob.kind = "task"
    /\ ~stepCommand.made
    /\ \E use_eos \in BOOLEAN :
        LET commands == SnakemakeCommands(stepJob, use_eos)
        IN  stepCommand' = [made |-> TRUE,
                            use_eos |-> use_eos,
                            command |-> ProcessUserCommands(stepJob),
                            commands |-> commands,
                            shell |-> JoinAnd(commands)]
    /\ UNCHANGED <<storeVars, op, storedMachine, status, asm, pc, runVars, notScriptVars,
                   stepJob, stepRule>>

\* construct_snake_file writes the rule of the job.
BuildRule ==
    /\ pc = "script"
    /\ ~stepRule.made
    /\ stepRule' = RuleOf(stepJob)
    /\ UNCHANGED <<storeVars, op, storedMachine, status, asm, pc, runVars, notScriptVars,
                   stepJob, stepCommand>>

NextScript ==
    \/ CompileCommand
    \/ BuildRule

SpecScript == InitScript /\ [][NextScript]_vars

\* ---------------------------------------- build script and commands: claims
\* The dependencies of a job: the impressions of its aliases and its Build
\* job.
DependenciesOf(j) ==
    {j.aliases[i].impression : i \in DOMAIN j.aliases}
        \cup (IF j.image # <<>> THEN {j.image} ELSE {})

\* C29: the rule of every job that is not an input job lists the ".done"
\* marker of each of the job's dependencies among its inputs (for a Task job
\* the marker of its Build job too) and has the single output
\* "<short ID>.done".
C29_AsStated ==
    (stepRule.made /\ ~stepJob.is_input) =>
        /\ \A d \in DependenciesOf(stepJob) : Done(Short(d)) \in Range(stepRule.inputs)
        /\ stepRule.output = Done(Short(JobId))

\* A Build job that reads the impression DataId under an alias has a rule
\* whose only input is setup.done.
C29_Witness ==
    /\ stepRule.made
    /\ stepJob.kind = "algorithm"
    /\ ~stepJob.is_input
    /\ DataId \in DependenciesOf(stepJob)
    /\ stepRule.inputs = <<SetupDone>>
    /\ stepRule.output = Done(Short(JobId))

\* s holds the token pat.
Contains(s, pat) == \E i \in 1..(Len(s) - Len(pat) + 1) : SubSeq(s, i, i + Len(pat) - 1) = pat

\* The names a job declares: its parameters and its aliases.
DeclaredNames(j) == DOMAIN j.values \cup {j.aliases[i].alias : i \in DOMAIN j.aliases}

\* C30: in the compiled command of a Task job no "${name}" token of a declared
\* parameter or alias remains, whatever the parameter values are, and every
\* "${alias}" of the template has become "../imp<short ID of the dependency>".
C30_AsStated ==
    (stepCommand.made /\ ~stepJob.is_input) =>
        \A name \in DeclaredNames(stepJob) :
            ~Contains(stepCommand.command[1], Placeholder(name))

\* Parameters a = x and b = ${a}: the template ${b} is compiled to a command
\* that holds ${a}.
C30_Witness ==
    /\ stepCommand.made
    /\ ~stepJob.is_input
    /\ DOMAIN stepJob.values = {<<"a">>, <<"b">>}
    /\ stepJob.values[<<"a">>] = <<"x">>
    /\ stepJob.values[<<"b">>] = Placeholder(<<"a">>)
    /\ stepJob.template = Placeholder(<<"b">>)
    /\ stepCommand.command[1] = <<"{", "{", " ">> \o Placeholder(<<"a">>)
            \o <<" ", ";", " ", "}", "}", " >> logs/celebi_user_step0.log 2>&1">>

\* ------------------------------------------------------- concurrent runs
\* UUID of a second workflow run on the same stored jobs.
OtherWorkflow == "w2"

RaceRuns == {ThisWorkflow, OtherWorkflow}

\* Two runs of run() whose root is the same Task job without dependencies;
\* a step is one read or one write of the job's records.
InitRace ==
    /\ StoreEmpty
    /\ pc = "race"
    /\ op = NoOp
    /\ IdleExcept("race")
    /\ racePc = [r \in RaceRuns |-> "construct"]
    /\ raceInput = [r \in RaceRuns |-> FALSE]
    /\ raceTries = [r \in RaceRuns |-> 0]
    /\ raceStatus = "raw"
    /\ raceWorkflow = ""

\* What a step of the concurrent runs leaves alone.
raceFrame == <<storeVars, op, storedMachine, status, asm, pc, runVars, notRaceVars>>

\* construct_workflow_jobs reads the job's status (lines 411-420).
RaceConstruct(r) ==
    /\ racePc[r] = "construct"
    /\ raceInput' = [raceInput EXCEPT ![r] = raceStatus \in TerminalForAssembly]
    /\ racePc' = [racePc EXCEPT ![r] = "mark"]
    /\ UNCHANGED <<raceFrame, raceTries, raceStatus, raceWorkflow>>

\* run(), lines 113-118.
RaceMark(r) ==
    /\ racePc[r] = "mark"
    /\ raceStatus' = IF raceInput[r] THEN raceStatus ELSE "waiting"
    /\ racePc' = [racePc EXCEPT ![r] = "wait"]
    /\ UNCHANGED <<raceFrame, raceInput, raceTries, raceWorkflow>>

\* An attempt of the wait loop: the job is waited on when it is an input of
\* the run and is read as neither archived nor finished.
RaceWait(r) ==
    /\ racePc[r] = "wait"
    /\ raceTries[r] < MaxTries
    /\ raceTries' = [raceTries EXCEPT ![r] = @ + 1]
    /\ racePc' = [racePc EXCEPT ![r] =
                    IF raceInput[r] /\ raceStatus \notin {"archived", "finished"}
                    THEN "sleep" ELSE "commit_id"]
    /\ UNCHANGED <<raceFrame, raceInput, raceStatus, raceWorkflow>>

\* "time.sleep(10)", then the next attempt or the end of the loop.
RaceSleep(r) ==
    /\ racePc[r] = "sleep"
    /\ racePc' = [racePc EXCEPT ![r] = IF raceTries[r] < MaxTries THEN "wait" ELSE "reset"]
    /\ UNCHANGED <<raceFrame, raceInput, raceTries, raceStatus, raceWorkflow>>

\* Lines 229-237.
RaceReset(r) ==
    /\ racePc[r] = "reset"
    /\ raceStatus' = IF raceInput[r] THEN raceStatus ELSE "raw"
    /\ racePc' = [racePc EXCEPT ![r] = "aborted"]
    /\ UNCHANGED <<raceFrame, raceInput, raceTries, raceWorkflow>>

\* run(), line 129: job.set_workflow_id(self.uuid).
RaceCommitId(r) ==
    /\ racePc[r] = "commit_id"
    /\ raceWorkflow' = IF raceInput[r] THEN raceWorkflow ELSE r
    /\ racePc' = [racePc EXCEPT ![r] = "commit_status"]
    /\ UNCHANGED <<raceFrame, raceInput, raceTries, raceStatus>>

\* run(), line 130: job.set_status("running").
RaceCommitStatus(r) ==
    /\ racePc[r] = "commit_status"
    /\ raceStatus' = IF raceInput[r] THEN raceStatus ELSE "running"
    /\ racePc' = [racePc EXCEPT ![r] = "dispatch"]
    /\ UNCHANGED <<raceFrame, raceInput, raceTries, raceWorkflow>>

\* run(), lines 133-150: the build script is written and the backend has
\* taken the workflow.
RaceDispatch(r) ==
    /\ racePc[r] = "dispatch"
    /\ racePc' = [racePc EXCEPT ![r] = "done"]
    /\ UNCHANGED <<raceFrame, raceInput, raceTries, raceStatus, raceWorkflow>>

\* run(), lines 137-146 and 151-160: emission or dispatch raises.
RaceDispatchFail(r) ==
    /\ racePc[r] = "dispatch"
    /\ raceStatus' = IF raceInput[r] THEN raceStatus ELSE "failed"
    /\ racePc' = [racePc EXCEPT ![r] = "failed"]
    /\ UNCHANGED <<raceFrame, raceInput, raceTries, raceWorkflow>>

\* The status route syncs the job against the workflow recorded as its
\* owner, once that workflow is with its backend.
RaceSync ==
    /\ raceWorkflow # ""
    /\ racePc[raceWorkflow] = "done"
    /\ \E step \in ObservedStep : raceStatus' = UpdateJobStatus(raceStatus, step, "running")
    /\ UNCHANGED <<raceFrame, racePc, raceInput, raceTries, raceWorkflow>>

NextRace ==
    \/ \E r \in RaceRuns :
        \/ RaceConstruct(r)
        \/ RaceMark(r)
        \/ RaceWait(r)
        \/ RaceSleep(r)
        \/ RaceReset(r)
        \/ RaceCommitId(r)
        \/ RaceCommitStatus(r)
        \/ RaceDispatch(r)
        \/ RaceDispatchFail(r)
    \/ RaceSync

SpecRace == InitRace /\ [][NextRace]_vars

\* The commands of the compiled sequence, and their number.
Compiled == stepCommand.commands

LastCommand == Len(Compiled)

\* C39: for every Task job, input or not, with or without stage-out to the
\* remote storage, the compiled sequence starts with the creation of the
\* working directory (its stageout and logs) and the change into it, and
\* ends with "cd .." followed by the creation of "<short ID>.done" as the
\* very last command; the shell command of the rule is the sequence joined
\* with "&&", so the marker is made only after all that precedes it.
C39_CommandFrame ==
    stepCommand.made =>
        /\ LastCommand >= 5
        /\ SubSeq(Compiled, 1, 3) = DirectoryCommands
        /\ Compiled[LastCommand - 1] = <<"cd ..">>
        /\ Compiled[LastCommand] = <<"touch ">> \o Done(Short(JobId))
        /\ \A i \in 1..(LastCommand - 1) : Compiled[i] # Compiled[LastCommand]
        /\ stepCommand.shell = JoinAnd(Compiled)
        /\ LET tail == <<" && ", "cd ..", " && ", "touch ">> \o Done(Short(JobId))
                shell == stepCommand.shell
           IN  SubSeq(shell, Len(shell) - Len(tail) + 1, Len(shell)) = tail

\* A Task job with an alias, a Build job and stage-out: three directory
\* commands, two links, the user command, two stage-out commands and the
\* two closing commands.
C39_Witness ==
    /\ stepCommand.made
    /\ ~stepJob.is_input
    /\ stepCommand.use_eos
    /\ stepJob.aliases # <<>>
    /\ LastCommand = 10
    /\ Compiled[9] = <<"cd ..">>
    /\ Compiled[7] = StageoutCommands[1]

\* ----------------------------------------------- concurrent runs: claims
\* Run r has given the shared job its UUID and set it running.
RaceCommitted(r) == ~raceInput[r] /\ racePc[r] \in {"dispatch", "done", "failed"}

\* C36: of two concurrent runs whose root closures share a non-terminal Task
\* job, at most one commits the job (gives it its UUID and sets it running)
\* and dispatches it; the other run has the job as an input to wait for.
C36_AsStated ==
    \A r, q \in RaceRuns : (RaceCommitted(r) /\ RaceCommitted(q)) => r = q

\* Both runs found the job not terminal, both committed it and both handed
\* it to their backend; the job's record names the second workflow.
C36_Witness ==
    /\ \A r \in RaceRuns : ~raceInput[r] /\ racePc[r] = "done"
    /\ raceWorkflow = OtherWorkflow
    /\ raceStatus = "running"

\* ------------------------------------------------------- refresh throttling
\* "(time.time() - last_update_time) > 5"
RefreshWindow == 5
\* time.time() at the first query, and the last time the model runs to.
StartTime == 10
MaxTime == 22
\* Largest number of enqueued refresh tasks followed.
MaxRefreshes == 3

\* "CHERN_CACHE.update_table.get(workflow.uuid, -1)" without an entry.
NeverUpdated == -1

InitThrottle ==
    /\ StoreEmpty
    /\ pc = "throttle"
    /\ op = NoOp
    /\ IdleExcept("throttle")
    /\ now = StartTime
    /\ updateTable = NeverUpdated
    /\ refreshes = <<>>
    /\ lastQuery = [at |-> -1, status |-> "", since |-> 0, enqueued |-> FALSE]

\* A query of the status route for a job of the workflow, whose status()
\* is workflow_status (lines 67-74): when more than 5 time units have passed
\* since the recorded time, the time of the query is recorded; otherwise
\* task_update_workflow_status is enqueued.
StatusQuery ==
    /\ pc = "throttle"
    /\ Len(refreshes) < MaxRefreshes
    /\ \E workflow_status \in {"running", "finished", "failed"} :
        LET since == now - updateTable
            open == workflow_status \notin {"finished", "failed"}
            enqueue == open /\ ~(since > RefreshWindow)
        IN  /\ updateTable' = IF open /\ since > RefreshWindow THEN now ELSE updateTable
            /\ refreshes' = IF enqueue THEN Append(refreshes, now) ELSE refreshes
            /\ lastQuery' = [at |-> now, status |-> workflow_status, since |-> since,
                             enqueued |-> enqueue]
    /\ UNCHANGED <<storeVars, op, storedMachine, status, asm, pc, runVars, notThrottleVars, now>>

\* Time passes.
Advance ==
    /\ pc = "throttle"
    /\ now < MaxTime
    /\ now' = now + 1
    /\ UNCHANGED <<storeVars, op, storedMachine, status, asm, pc, runVars, notThrottleVars,
                   updateTable, refreshes, lastQuery>>

NextThrottle ==
    \/ StatusQuery
    \/ Advance

SpecThrottle == InitThrottle /\ [][NextThrottle]_vars

\* ----------------------------------------------- refresh throttling: claims
\* C40: for a workflow that is neither finished nor failed the status route
\* enqueues a refresh exactly when more than 5 time units have passed since
\* the last recorded refresh of that workflow, and none for a query within 5
\* time units of it, so that no two refreshes are enqueued within one window
\* of 5 time units.
C40_AsStated ==
    /\ (lastQuery.at >= 0 /\ lastQuery.status \notin {"finished", "failed"}) =>
            (lastQuery.enqueued <=> lastQuery.since > RefreshWindow)
    /\ \A i, k \in DOMAIN refreshes :
            i < k => refreshes[k] - refreshes[i] > RefreshWindow

\* The first query recorded its time and enqueued nothing; two queries one
\* and two time units later each enqueued a refresh; a query 6 time units
\* after the recorded time enqueued nothing.
C40_Witness ==
    /\ updateTable = StartTime + 6
    /\ refreshes = <<StartTime + 1, StartTime + 2>>
    /\ lastQuery = [at |-> StartTime + 6, status |-> "running", since |-> 6, enqueued |-> FALSE]

\* ----------------------------------------------------- wait loop: claims
\* The step is an attempt of the wait loop in which polls were made and
\* every one of them failed: the exception was caught and logged.
FailedPollAttempt ==
    /\ iTries' = iTries + 1
    /\ polls' # <<>>
    /\ \A i \in DOMAIN polls' : polls'[i].result # "ok"

\* What a failed poll leaves alone whatever made it fail: the loop goes on
\* to its sleep or ends with all inputs finished, nothing is raised, no job
\* record and no status of the running workflow is written, and the attempt
\* has polled once for every input job still waited on.
FailedPollSkipped ==
    /\ pc' \in {"sleep", "commit"}
    /\ ~raised'
    /\ status' = status
    /\ wfStatus' = wfStatus
    /\ writes' = writes
    /\ Len(polls') = Len(PendingInputs)

\* C25 (as stated): a failing poll during an attempt of the wait is skipped
\* for that cycle and leaves the previously persisted status record in
\* place.
C25_AsStated ==
    [][FailedPollAttempt => (FailedPollSkipped /\ depResults' = depResults)]_vars

\* C25 (amended): a failing poll is skipped for that cycle; the stored step
\* log stays as it was, the stored status record stays when the engine call
\* itself raised, and is the engine's new record when the failure came after
\* the engine had answered.
C25_FailedPollSkipped ==
    [][FailedPollAttempt =>
        /\ FailedPollSkipped
        /\ depResults'.step = depResults.step
        /\ (\A i \in DOMAIN polls' : polls'[i].result = "raised_call") => depResults' = depResults
        /\ polls'[Len(polls')].result = "raised_logs" => depResults'.status \in ObservedWorkflow]_vars

\* A later attempt's poll failed on the logs after an earlier poll had
\* stored a step: the loop sleeps, the stored status is the engine's and the
\* step the earlier one, and nothing was raised.
C25_Witness ==
    /\ pc = "sleep"
    /\ iTries >= 2
    /\ polls = <<[uuid |-> PriorWorkflow, result |-> "raised_logs"]>>
    /\ depResults = [status |-> "failed", step |-> "running"]
    /\ status[1] = "running"
    /\ ~raised

\* The paths of the jobs an attempt waits on.
PendingPaths == {PendingInputs[k].path : k \in DOMAIN PendingInputs}

\* C31: in every attempt of the dependency wait, each input non-algorithm job
\* that is neither archived nor finished has update_status_from_workflow run
\* against the path of its owning workflow before its status is checked
\* again, so that the wait loop itself sees a job finished once the records
\* of its workflow say so.
C31_AsStated ==
    [][(pc = "wait" /\ iTries' = iTries + 1) => PendingPaths \subseteq attempt'.synced]_vars

\* Two attempts have polled the workflow of the running input job 1, whose
\* records now say finished for the workflow and for the job's step; no
\* attempt called the job's status-sync and the job is still running.
C31_Witness ==
    /\ pc = "sleep"
    /\ iTries >= 2
    /\ attempt.polled = <<PriorWorkflow>>
    /\ attempt.synced = {}
    /\ depResults = [status |-> "finished", step |-> "finished"]
    /\ status[1] = "running"
    /\ ~attempt.all_finished

\* C32: in an attempt of the dependency wait update_workflow_status is
\* called once for each workflow the pending input jobs refer to: a workflow
\* UUID shared by several pending jobs is polled once.
C32_AsStated ==
    \A i, k \in DOMAIN attempt.polled : attempt.polled[i] = attempt.polled[k] => i = k

\* Two pending input jobs of the earlier workflow: the attempt polled that
\* workflow twice.
C32_Witness ==
    /\ iTries > 0
    /\ Cardinality(PendingPaths) = 2
    /\ \A j \in PendingPaths : wfid[j] = PriorWorkflow
    /\ attempt.polled = <<PriorWorkflow, PriorWorkflow>>

\* ---------------------------------------------------------- kill: claims
\* C24 (as stated): kill() marks the jobs of the killed workflow failed,
\* for both backends and for a workflow rehydrated from its stored id.
C24_AsStated ==
    op.name = "kill" =>
        \A j \in DOMAIN status :
            (kind[j] = "task" /\ wfid[j] = wfid[op.job]) => status[j] = "failed"

\* A remote workflow of two running tasks was killed through the first one:
\* that job is failed and the other one is still running.
C24_Witness ==
    /\ op.name = "kill"
    /\ op.job = 1
    /\ mode = "reana"
    /\ kind = [j \in 1..KillJobs |-> "task"]
    /\ status[1] = "failed"
    /\ status[2] = "running"
    /\ wfid[2] = wfid[1]

\* ---------------------------------------------------- status-sync: claims
\* The step is a status-sync of job j.
SyncStep(j) == op'.name = "sync" /\ op'.job = j

\* "status = matched_step.get('status')" if a step matches, else the
\* workflow status: the observed step status of the sync being made.
ObservedStepStatus == IF op'.step # NoStep THEN op'.step ELSE op'.full

\* The sync of job j reaches the transition rule: the job is no algorithm,
\* its status is not final and results.json was read.
RuleStep(j) ==
    /\ SyncStep(j)
    /\ kind[j] # "algorithm"
    /\ op'.full # None
    /\ status[j] \notin {"finished", "success", "failed"}

\* C12: the rule for a running job stores success for the observed step
\* status success, finished for finished, failed for failed or stopped,
\* failed if the observed workflow status is failed, and else keeps running.
C12_RunningRule ==
    [][\A j \in DOMAIN status : (RuleStep(j) /\ status[j] = "running") =>
        status'[j] =
            IF ObservedStepStatus = "success" THEN "success"
            ELSE IF ObservedStepStatus = "finished" THEN "finished"
            ELSE IF ObservedStepStatus \in {"failed", "stopped"} THEN "failed"
            ELSE IF op'.full = "failed" THEN "failed"
            ELSE "running"]_vars

\* A running job was synced with step status stopped and is now failed.
C12_Witness ==
    /\ op.name = "sync"
    /\ op.before = "running"
    /\ op.step = "stopped"
    /\ op.full = "running"
    /\ status[op.job] = "failed"

\* C13: a sync of a job whose stored status is finished, success or failed
\* changes no stored status, whatever is observed; the same holds for the
\* transition rule applied to such a status directly.
C13_TerminalAbsorbing ==
    [][/\ \A j \in DOMAIN status :
            (SyncStep(j) /\ status[j] \in {"finished", "success", "failed"}) => status' = status
       /\ \A c \in {"finished", "success", "failed"} :
            \A st \in StepStatuses \cup EngineStatuses, full \in EngineStatuses \cup {ReadyForLocal} :
                UpdateJobStatus(c, st, full) = c]_vars

\* Two syncs in a row of a finished task, the second with a failed step.
C13_Witness ==
    /\ op.name = "sync"
    /\ op.before = "finished"
    /\ op.step = "failed"
    /\ op.full = "failed"
    /\ kind[op.job] = "task"
    /\ status[op.job] = "finished"

\* The step is a sync of the job synced by the step before, with the same
\* observation.
SecondSync(j) ==
    /\ op.name = "sync"
    /\ op.job = j
    /\ SyncStep(j)
    /\ op'.full = op.full
    /\ op'.step = op.step

\* C14 (as stated): a second sync of a job with the same backend result
\* leaves the status the first sync stored.
C14_AsStated ==
    [][\A j \in DOMAIN status : SecondSync(j) => status'[j] = status[j]]_vars

\* C14 (amended): a second sync with the same backend result leaves the
\* status the first sync stored, unless that status is stopped or deleted,
\* or is running while the workflow status is failed; then it stores failed.
C14_SecondSync ==
    [][\A j \in DOMAIN status : SecondSync(j) =>
        \/ status'[j] = status[j]
        \/ /\ status'[j] = "failed"
           /\ \/ status[j] \in {"stopped", "deleted"}
              \/ status[j] = "running" /\ op'.full = "failed"]_vars

\* A raw job was synced twice with the same result: stopped, then failed.
C14_Witness ==
    /\ op.name = "sync"
    /\ op.before = "stopped"
    /\ op.step = NoStep
    /\ op.full = "stopped"
    /\ status[op.job] = "failed"

\* C15 (as stated): every stored job status is one of the ten named values.
C15_AsStated ==
    \A j \in DOMAIN status :
        status[j] \in {"raw", "waiting", "running", "success", "finished", "failed",
                       "stopped", "deleted", "archived", "unknown"}

\* C15 (amended): every stored job status is one of the ten named values or
\* a value of fewer than 20 characters that a step or a workflow had as its
\* status.
C15_StatusDomain ==
    \A j \in DOMAIN status :
        \/ status[j] \in {"raw", "waiting", "running", "success", "finished", "failed",
                          "stopped", "deleted", "archived", "unknown"}
        \/ /\ status[j] \in StepStatuses \cup EngineStatuses \cup DryPollStatuses \cup {"killed"}
           /\ Len(status[j]) < 20

\* A sync stored the engine's value pending.
C15_Witness ==
    /\ op.name = "sync"
    /\ \E j \in DOMAIN status : status[j] = "pending" /\ op.job = j

\* C16 (as stated): the workflow status is one of the six named values.
C16_AsStated ==
    wfStatus \in {"unknown", "ready", "running", "finished", "failed", "killed"}

\* C16 (amended): the workflow status is unknown, ready_for_local_execution,
\* running, finished, failed, killed, or a status the remote engine reported.
C16_WorkflowStatusDomain ==
    \/ wfStatus \in {"unknown", "ready_for_local_execution", "running", "finished",
                     "failed", "killed"}
    \/ mode = "reana" /\ wfStatus \in EngineStatuses

\* The local workflow was killed after a poll.
C16_Witness == mode = "dry" /\ wfStatus = "killed" /\ op.name = "kill"

\* C17: the rule for a raw job stores the observed step status if it has
\* fewer than 20 characters and otherwise leaves raw (not unknown).
C17_RawRule ==
    [][\A j \in DOMAIN status : (RuleStep(j) /\ status[j] = "raw") =>
        status'[j] = IF Len(ObservedStepStatus) < 20 THEN ObservedStepStatus ELSE "raw"]_vars

\* A raw job was synced with a step status of 25 characters and is raw.
C17_Witness ==
    /\ op.name = "sync"
    /\ op.before = "raw"
    /\ op.step = ReadyForLocal
    /\ op.full = "running"
    /\ kind[op.job] = "task"
    /\ status[op.job] = "raw"

C19_OtherRule ==
    [][\A j \in DOMAIN status :
        (RuleStep(j) /\ status[j] \notin {"raw", "running", "stopped", "deleted"}) =>
            status'[j] = IF Len(ObservedStepStatus) < 20 THEN ObservedStepStatus ELSE "unknown"]_vars

\* An archived job was synced with a value of 25 characters and is unknown.
C19_Witness ==
    /\ op.name = "sync"
    /\ op.before = "archived"
    /\ op.step = NoStep
    /\ op.full = ReadyForLocal
    /\ status[op.job] = "unknown"

\* ----------------------------------------------------------- run(): claims
\* Every input job of the assembled list that is not an algorithm is
\* finished or archived.
InputsDone ==
    \A i \in DOMAIN asm.jobs :
        (asm.jobs[i].is_input /\ kind[asm.jobs[i].path] # "algorithm")
            => status[asm.jobs[i].path] \in {"finished", "archived"}

\* The dependency wait has returned True.
WaitSucceeded == pc \in {"commit", "emit", "dispatch", "done", "failed"}

\* The dependency wait has returned False.
WaitFailed ==
    /\ pc \notin {"construct", "mark", "wait", "sleep", "exhausted", "wait_raised"}
    /\ ~attempt.all_finished

RawWritten == \E w \in writes : w[2] = "raw"

\* C4: an attempt (one of at most 60) that finds every input non-algorithm
\* job finished or archived ends the wait with success: run() goes on to the
\* commit, no later attempt is made, and no job has been reset to raw.
C4_WaitSuccess ==
    [][/\ (iTries' # iTries /\ InputsDone) => (pc' = "commit" /\ iTries' <= 60)
       /\ WaitSucceeded => iTries' = iTries
       /\ WaitSucceeded' => ~RawWritten']_vars

C4_Witness ==
    /\ pc = "commit"
    /\ iTries = 60
    /\ ActivePaths # {}
    /\ \E i \in DOMAIN asm.jobs :
        /\ asm.jobs[i].is_input
        /\ kind[asm.jobs[i].path] = "task"
        /\ status[asm.jobs[i].path] = "finished"
    /\ ~RawWritten

\* C5: an attempt that finds an input non-algorithm job neither finished nor
\* archived is never a success and is followed by a delay of 10; there is no
\* 61st attempt; the wait fails only after exactly 60 attempts and 60 delays,
\* and then every non-input non-algorithm job is raw.
C5_WaitExhaustion ==
    [][/\ iTries' <= 60
       /\ (iTries' # iTries /\ ~InputsDone) => (pc' = "sleep" /\ ~attempt'.all_finished)
       /\ (pc = "sleep" /\ pc' # pc) => slept' = slept + 10
       /\ (pc = "wait" /\ pc' = "commit") => InputsDone
       /\ WaitSucceeded' => attempt'.all_finished
       /\ (pc' = "aborted") =>
            /\ iTries' = 60
            /\ slept' = 600
            /\ \A j \in ActivePaths' : status'[j] = "raw"]_vars

C5_Witness ==
    /\ pc = "aborted"
    /\ iTries = 60
    /\ slept = 600
    /\ \E j \in ActivePaths : status[j] = "raw" /\ <<j, "waiting">> \in writes
    /\ \E k \in DOMAIN asm.jobs :
        /\ asm.jobs[k].is_input
        /\ kind[asm.jobs[k].path] = "task"
        /\ status[asm.jobs[k].path] = "running"

\* C6: once the dependency wait has failed, run() is in the aborted state
\* and stays there: nothing was raised, no job carries this workflow's id,
\* neither running nor failed was written to a job, the build script was not
\* emitted, no backend stage ran, and the workflow status is not failed.
C6_AbortedClean ==
    WaitFailed =>
        /\ pc = "aborted"
        /\ ~raised
        /\ \A j \in DOMAIN wfid : wfid[j] # ThisWorkflow
        /\ \A w \in writes : w[2] \notin {"running", "failed"}
        /\ ~emitted
        /\ backendLog = <<>>
        /\ wfStatus # "failed"

C6_Witness == WaitFailed /\ ActivePaths # {} /\ iTries = 60

\* C7: the commit step gives this workflow's UUID and the status running to
\* every non-input non-algorithm job of the list and to no other job; a job
\* carries this UUID, or has had running written, only after the wait has
\* succeeded; emission and dispatch start only after the commit.
C7_Commit ==
    [][/\ (pc = "commit" /\ pc' # pc) =>
            /\ pc' = "emit"
            /\ \A j \in ActivePaths : wfid'[j] = ThisWorkflow /\ status'[j] = "running"
            /\ \A j \in DOMAIN wfid \ ActivePaths : wfid'[j] = wfid[j] /\ status'[j] = status[j]
       /\ (\E j \in DOMAIN wfid : wfid'[j] = ThisWorkflow \/ <<j, "running">> \in writes') =>
            /\ attempt'.all_finished
            /\ pc' \in {"emit", "dispatch", "done", "failed"}
       /\ (emitted' \/ backendLog' # <<>> \/ pc' \in {"emit", "dispatch", "done", "failed"}) =>
            \A j \in ActivePaths' : wfid'[j] = ThisWorkflow /\ <<j, "running">> \in writes']_vars

C7_Witness ==
    /\ pc = "emit"
    /\ Cardinality(ActivePaths) = 2
    /\ \A j \in ActivePaths : wfid[j] = ThisWorkflow /\ status[j] = "running"

\* C8: between the DAG construction and the first dependency check every
\* non-input non-algorithm job of the list has stored status waiting.
C8_MarkWaiting ==
    (pc = "wait" /\ iTries = 0) => \A j \in ActivePaths : status[j] = "waiting"

C8_Witness ==
    /\ pc = "wait"
    /\ iTries = 0
    /\ \E j \in ActivePaths : status[j] = "waiting"
    /\ \E i \in DOMAIN asm.jobs : asm.jobs[i].is_input /\ status[asm.jobs[i].path] # "waiting"
    /\ \E i \in DOMAIN asm.jobs : kind[asm.jobs[i].path] = "algorithm"
                                    /\ status[asm.jobs[i].path] = "raw"

\* The run ended in the except block of the dispatch / of the emission.
DispatchFailed == pc = "failed" /\ emitted
EmitFailed == pc = "failed" /\ ~emitted

\* C9: when a stage of the backend submit fails, run() exits with the
\* workflow status failed, every non-input non-algorithm job failed, and the
\* error raised to the caller.
C9_DispatchFailure ==
    DispatchFailed =>
        /\ backendLog # <<>>
        /\ wfStatus = "failed"
        /\ \A j \in ActivePaths : status[j] = "failed"
        /\ raised

C9_Witness ==
    /\ DispatchFailed
    /\ mode = "dry"
    /\ backendLog = <<"create_local_structure", "copy_files_local">>
    /\ ActivePaths # {}

\* C10: when the build-script emission fails, the workflow status is failed,
\* every non-input non-algorithm job is failed, no backend stage was invoked,
\* and the error is raised to the caller.
C10_EmitFailure ==
    EmitFailed =>
        /\ wfStatus = "failed"
        /\ \A j \in ActivePaths : status[j] = "failed"
        /\ backendLog = <<>>
        /\ raised

C10_Witness == EmitFailed /\ ActivePaths # {} /\ wfStatus = "failed"

\* construct_workflow_jobs has raised out of run().
ConstructFailed == pc = "crashed"

\* C11 (as stated): when the DAG assembly fails during run(), the error is
\* fatal to the run and every non-input non-algorithm job assembled for the
\* run is failed.
C11_AsStated ==
    ConstructFailed => (raised /\ \A j \in ActivePaths : status[j] = "failed")

\* The assembly has failed after a job of the run was put on the list, and
\* the run is over with that job still raw and nothing written.
C11_Witness ==
    /\ ConstructFailed
    /\ raised
    /\ writes = {}
    /\ \E j \in ActivePaths : status[j] = "raw"

\* C33: run() reaches the commit (a job is given the workflow UUID or set
\* running) only from a dependency check that found every input Task job
\* finished or archived; one input Task job in any other status keeps the
\* check from leading to the commit.
C33_CommitNeedsInputs ==
    [][/\ (~WaitSucceeded /\ WaitSucceeded') => (pc = "wait" /\ InputsDone /\ attempt'.all_finished)
       /\ (pc = "wait" /\ ~InputsDone) => ~WaitSucceeded'
       /\ (\E j \in DOMAIN wfid : wfid'[j] = ThisWorkflow \/ <<j, "running">> \in writes') =>
            (WaitSucceeded' /\ attempt'.all_finished)]_vars

\* The commit is reached after an attempt that failed and a later one that
\* found the input Task job finished.
C33_Witness ==
    /\ pc = "emit"
    /\ slept > 0
    /\ \E j \in ActivePaths : wfid[j] = ThisWorkflow /\ status[j] = "running"
    /\ \E i \in DOMAIN asm.jobs :
        /\ asm.jobs[i].is_input
        /\ kind[asm.jobs[i].path] = "task"
        /\ status[asm.jobs[i].path] = "finished"

\* An input Task job of the list has status failed or success.
DependencyFailed ==
    \E i \in DOMAIN asm.jobs :
        /\ asm.jobs[i].is_input
        /\ kind[asm.jobs[i].path] = "task"
        /\ status[asm.jobs[i].path] \in {"failed", "success"}

\* A step of run() while an input Task job is failed or success: an attempt
\* fails and is followed by the sleep; the job stays as it is and the wait
\* does not succeed; the wait returns only after the last attempt, with the
\* active jobs reset to raw.
FailedDependencyStep ==
    /\ (DependencyFailed /\ pc = "wait" /\ iTries' = iTries + 1) =>
            (pc' = "sleep" /\ ~attempt'.all_finished)
    /\ (DependencyFailed /\ pc \in {"wait", "sleep", "exhausted"}) =>
            (DependencyFailed' /\ ~WaitSucceeded')
    /\ (DependencyFailed /\ pc # "aborted" /\ pc' = "aborted") =>
            /\ iTries = MaxTries
            /\ \A j \in ActivePaths : status'[j] = "raw"

\* C34: while an input Task job has status failed or success, no attempt of
\* the wait succeeds, whatever the polls return: every attempt is followed by
\* the sleep, the wait ends only after 60 attempts with the run's jobs reset
\* to raw, and (unless an exception leaves run()) it does end that way.
C34_FailedNeverDetected ==
    /\ [][FailedDependencyStep]_vars
    /\ (DependencyFailed /\ pc = "wait") ~> (pc \in {"aborted", "wait_raised"})

\* The wait has run its 60 attempts on a failed input job and reset the job
\* it had marked waiting, although the workflow of the input was polled as
\* finished.
C34_Witness ==
    /\ pc = "aborted"
    /\ iTries = MaxTries
    /\ asm.jobs[1].is_input
    /\ status = <<"failed", "raw">>
    /\ <<2, "waiting">> \in writes
    /\ depResults.status = "finished"

\* run() has returned or has propagated an exception.
RunEnded == pc \in {"done", "aborted", "failed", "crashed", "wait_raised"}

\* C35: when run() has ended, by returning or by propagating an error raised
\* in any of its steps, no job it marked waiting still has status waiting:
\* each is running, raw or failed.
C35_AsStated ==
    RunEnded =>
        \A j \in DOMAIN status :
            <<j, "waiting">> \in writes => status[j] \in {"running", "raw", "failed"}

\* VWorkflow.create raised in the wait loop: run() has propagated the error
\* and the job it marked waiting is still waiting.
C35_Witness ==
    /\ pc = "wait_raised"
    /\ raised
    /\ \E j \in ActivePaths : <<j, "waiting">> \in writes /\ status[j] = "waiting"
    /\ \A w \in writes : w[2] = "waiting"

\* A step of run() itself (the status route's sync of an input job leaves
\* the position of run() unchanged).
RunStep == pc' # pc

\* The jobs of the store that are input jobs or algorithm jobs of the list,
\* or not in the list at all.
PassivePaths == DOMAIN status \ ActivePaths

\* C37: run() writes neither the status nor the workflow id of an input job
\* or of an algorithm job: every step of run() (marking, reset to raw,
\* commit, emit failure, dispatch failure) leaves both as they were, and
\* every write run() makes is to a non-input non-algorithm job.
C37_InputsUntouched ==
    [][/\ RunStep => \A j \in PassivePaths' : status'[j] = status[j] /\ wfid'[j] = wfid[j]
       /\ \A w \in writes' : w[1] \in ActivePaths']_vars

\* A run that ended in an except block of run(): the task is failed under
\* this workflow's id, the algorithm job of the list is still raw and has no
\* workflow id.
C37_Witness ==
    /\ pc = "failed"
    /\ \E j \in ActivePaths : status[j] = "failed" /\ wfid[j] = ThisWorkflow
    /\ \E i \in DOMAIN asm.jobs :
        /\ kind[asm.jobs[i].path] = "algorithm"
        /\ ~asm.jobs[i].is_input
        /\ status[asm.jobs[i].path] = "raw"
        /\ wfid[asm.jobs[i].path] = ""

\* C38: the dependency map construct_snake_file builds is closed: every rule
\* name listed as a predecessor of a rule is itself a key of the map, also
\* for the predecessors of input jobs and of jobs whose dependency was
\* dropped during the assembly.
C38_AsStated ==
    emitted =>
        \A key \in DOMAIN SnakeDependencies :
            \A k \in DOMAIN SnakeDependencies[key] :
                SnakeDependencies[key][k] \in DOMAIN SnakeDependencies

\* The root is a finished input job that depends on job 1: the list holds
\* the root only, and the map names step 1 as its predecessor without having
\* a key for it.
C38_Witness ==
    /\ emitted
    /\ Len(asm.jobs) = 1
    /\ asm.jobs[1].path = 2
    /\ asm.jobs[1].is_input
    /\ SnakeDependencies[StepName(2)] = <<StepName(1)>>
    /\ StepName(1) \notin DOMAIN SnakeDependencies

\* ------------------------------------------------------- assembly: claims
\* construct_workflow_jobs has returned: "while stack" found the stack empty.
AsmDone == asm.stack = <<>>

ListedPaths == {asm.jobs[i].path : i \in DOMAIN asm.jobs}

Terminal(j) == status[j] \in TerminalForAssembly

\* The job's machine id can be resolved, so the loop does not drop it.
Schedulable(j) == storedMachine[j] # None \/ WorkflowMachine # None

\* Jobs reachable from the roots in at most k dependency steps, where only
\* the jobs of Through are expanded.
RECURSIVE ReachIn(_, _)
ReachIn(k, Through) ==
    IF k = 0 THEN {roots[i] : i \in DOMAIN roots}
    ELSE LET R == ReachIn(k - 1, Through)
         IN R \cup {deps[j][i] : <<j, i>> \in {x \in (R \cap Through) \X (1..Len(deps)) :
                                                  x[2] \in DOMAIN deps[x[1]]}}

AllJobs == DOMAIN deps

\* Reachable from a root without passing through a terminal job.
ReachableLiteral == ReachIn(Len(deps), {j \in AllJobs : ~Terminal(j)})

\* Reachable from a root through jobs that are schedulable and not terminal.
ReachableExpanded == ReachIn(Len(deps), {j \in AllJobs : ~Terminal(j) /\ Schedulable(j)})

NoDuplicatePath == \A i, k \in DOMAIN asm.jobs : i # k => asm.jobs[i].path # asm.jobs[k].path

\* C1 (as stated): when construct_workflow_jobs returns no job path occurs
\* twice in the list, and every schedulable job reachable from a root without
\* passing through a terminal-for-assembly job occurs in it.
C1_AsStated ==
    AsmDone =>
        /\ NoDuplicatePath
        /\ \A j \in ReachableLiteral : Schedulable(j) => j \in ListedPaths

\* C1 (amended): when construct_workflow_jobs returns no job path occurs twice
\* in the list, and the list holds exactly the schedulable jobs reachable from
\* a root through jobs that are themselves schedulable and not terminal.
C1_ExactlyOnce ==
    AsmDone =>
        /\ NoDuplicatePath
        /\ ListedPaths = {j \in ReachableExpanded : Schedulable(j)}

\* Some job is reachable from the roots along two different paths.
MultiPath == \E a, b, c \in AllJobs :
    /\ \E i \in DOMAIN deps[a] : deps[a][i] = b
    /\ \E i \in DOMAIN deps[a] : deps[a][i] = c
    /\ \E i \in DOMAIN deps[b] : deps[b][i] = c
    /\ a \in ListedPaths

C1_Witness ==
    /\ AsmDone
    /\ Len(roots) = 2 /\ roots[1] = roots[2]
    /\ MultiPath
    /\ Len(asm.jobs) >= 3

IndexOf(j) == CHOOSE i \in DOMAIN asm.jobs : asm.jobs[i].path = j

\* C2: in the returned list every job that is not terminal-for-assembly
\* stands strictly after each of its dependencies that is in the list.
C2_PostOrder ==
    AsmDone =>
        \A i \in DOMAIN asm.jobs :
            LET j == asm.jobs[i].path
            IN ~Terminal(j) =>
                \A d \in DOMAIN deps[j] :
                    \A k \in DOMAIN asm.jobs : asm.jobs[k].path = deps[j][d] => k < i

\* A non-terminal job listed after a listed dependency, and a terminal job
\* listed although one of its dependencies was never expanded into the list.
C2_Witness ==
    /\ AsmDone
    /\ \E j \in ListedPaths : ~Terminal(j) /\ \E d \in DOMAIN deps[j] :
            deps[j][d] \in ListedPaths /\ IndexOf(deps[j][d]) < IndexOf(j)
    /\ \E j \in ListedPaths : Terminal(j) /\ \E d \in DOMAIN deps[j] :
            deps[j][d] \notin ListedPaths

\* C3: over an acyclic dependency relation the loop of
\* construct_workflow_jobs terminates: the stack eventually becomes empty.
C3_Terminates == <>AsmDone

\* The loop has ended after expanding a job with dependencies.
C3_Witness == AsmDone /\ Len(asm.jobs) >= 3 /\ \E j \in ListedPaths : ~Terminal(j) /\ deps[j] # <<>>

\* The five statuses the claim names.
NamedTerminal(j) == status[j] \in {"finished", "failed", "pending", "running", "archived"}

\* The entry on top of the stack is handled (neither skipped as already
\* processed nor dropped for want of a machine id) and its job has one of
\* the five statuses.
PopsTerminal ==
    /\ asm.stack # <<>>
    /\ LET entry == asm.stack[Len(asm.stack)]
       IN /\ ~(entry.job.path \in asm.visited /\ ~entry.expanded)
          /\ ResolveMachine(entry.job).machine_id # None
          /\ NamedTerminal(entry.job.path)

\* C20: a popped job that is finished, failed, pending, running or archived
\* is put on the list at once and nothing is pushed on the stack for it; at
\* the end every listed job is reachable from a root along jobs that have
\* none of these statuses.
C20_TerminalNotExpanded ==
    [][/\ PopsTerminal =>
            /\ asm'.stack = SubSeq(asm.stack, 1, Len(asm.stack) - 1)
            /\ Len(asm'.jobs) = Len(asm.jobs) + 1
            /\ asm'.jobs[Len(asm'.jobs)].path = asm.stack[Len(asm.stack)].job.path
       /\ AsmDone' =>
            \A j \in ListedPaths' : j \in ReachIn(Len(deps), {k \in AllJobs : ~NamedTerminal(k)})]_vars

\* The list is complete: it holds an archived job and a running job, and
\* none of their dependencies.
C20_Witness ==
    /\ AsmDone
    /\ \E j, k \in ListedPaths :
        /\ status[j] = "archived"
        /\ status[k] = "running"
        /\ deps[j] # <<>>
        /\ \A d \in DOMAIN deps[j] : deps[j][d] \notin ListedPaths
====
